---- MODULE Spec2Model ----
(***************************************************************************)
(* A model of the dependency resolution engine of pyqtdeploy: target       *)
(* predicates (platforms.py), version ranges (version_number.py,           *)
(* parts.py), the per-component parts table (abstract_component.py) and    *)
(* the project build set (builder.py).                                     *)
(*                                                                         *)
(* A Python string is modelled as the sequence of its lexical tokens: the  *)
(* punctuation the code looks for (":", "?", "!", "#", "|", "-", ".") is   *)
(* one token each and every run of other characters is one token.  The     *)
(* string operations of the code (split, startswith, in, slicing, +) are   *)
(* the operators below.                                                    *)
(***************************************************************************)
EXTENDS Integers, Sequences, FiniteSets, TLC

VARIABLES
    targets,    \* is_targeted(): the "targets" argument
    arch,       \* is_targeted(): the name of the architecture "self"
    covered,    \* is_targeted(): "idle", or its outcome
    part_versions, \* _normalised_part(): the tuple of version specific parts
    self_version, \* _normalised_part(): self.version, NONE when not in use
    selected,   \* _normalised_part(): NONE, or Some(its outcome)
    sysroot,    \* the Sysroot: its target and its components, in order
    memo,       \* each component's self._parts: NONE, or Some(dict)
    stack,      \* the frames of the calls of parts and _add_part in progress
    ci,         \* the number of components whose parts have been asked for
    raised,     \* an exception has ended the run
    earlier_parts, \* NONE, or Some(the parts tables of the sysroot before
                \* a component was added)
    build_sysroot, \* build(): the sysroot's target and finished parts tables
    project_parts, \* build(): project.parts, the names the project asks for
    available_parts, \* build(): the dict of all the parts of the sysroot
    required_parts, \* build(): "parts", the dict of the parts required
    build_pc,   \* build(): the statement build() is at
    specification_file, \* the sysroot specification as toml.load() reads it
    self_spec,  \* SysrootSpecification: self._spec
    sessions,   \* the Sysroot objects created so far: target and components
    version_self, \* a comparison: the VersionNumber on the left, or NONE
    version_other, \* a comparison: the right hand side, or NONE
    compared,   \* a comparison: NONE, or Some(what the operators returned)
    qmake_build, \* _write_qmake(): NONE, or Some(the required parts and
                \* python.install_from_source)
    pro_file,   \* _write_qmake(): NONE, or Some(the lines written from the
                \* accumulated values)
    main_file,  \* _write_inittab(): NONE, or Some(the names of the table)
    install_args,   \* install_components(): NONE, or Some(the sysroot, the
                    \* component names given and force)
    install_run,    \* NONE, or Some(the components to install, whether they
                    \* are all components, and force as it has become)
    manifest_file,  \* the Manifest file: NONE, or Some(its lines)
    sysroot_dir,    \* the components whose install() completed in what the
                    \* sysroot directory holds, each with its version
    manifest,       \* the manifest dict of install_components()
    install_status, \* _install_status of each component
    install_stack,  \* the calls of ensure_installed() that have not returned
    install_ci,     \* the index of the loop over the components
    install_pc,     \* where install_components() is at
    install_log,    \* the calls and returns of install(), and the emptying
                    \* of the sysroot directory, in order
    install_error,  \* NONE, or Some(the text of the error raised)
    resources_contents, \* _generate_resources(): the entries to write
    nr_resources,   \* the number of resource files asked for
    resource_files  \* NONE, or Some(whether _generate_resources() raised
                    \* and the files written)

targetVars == <<targets, arch, covered>>

variantVars == <<part_versions, self_version, selected>>

resolveVars == <<sysroot, memo, stack, ci, raised, earlier_parts>>

buildVars ==
    <<build_sysroot, project_parts, available_parts, required_parts,
      build_pc>>

sessionVars == <<specification_file, self_spec, sessions>>

compareVars == <<version_self, version_other, compared>>

qmakeVars == <<qmake_build, pro_file, main_file>>

installVars == <<install_args, install_run, manifest_file, sysroot_dir,
                 manifest, install_status, install_stack, install_ci,
                 install_pc, install_log, install_error>>

resourceVars == <<resources_contents, nr_resources, resource_files>>

laterVars == <<compareVars, qmakeVars, installVars, resourceVars>>

vars == <<targets, arch, covered, part_versions, self_version, selected,
          sysroot, memo, stack, ci, raised, earlier_parts,
          build_sysroot, project_parts, available_parts, required_parts,
          build_pc, specification_file, self_spec, sessions,
          version_self, version_other, compared,
          qmake_build, pro_file, main_file,
          install_args, install_run, manifest_file, sysroot_dir, manifest,
          install_status, install_stack, install_ci, install_pc,
          install_log, install_error,
          resources_contents, nr_resources, resource_files>>

(***************************************************************************)
(* Python values.                                                          *)
(***************************************************************************)
UserException == "UserException"

\* The empty string.
Empty == <<>>

\* str.startswith(tok) for a one character prefix.
StartsWith(s, tok) == Len(s) > 0 /\ s[1] = tok

\* tok in str, for a one character needle.
Contains(s, tok) == \E i \in 1..Len(s) : s[i] = tok

\* s[1:]
Rest(s) == SubSeq(s, 2, Len(s))

\* The index of the first tok in s, 0 when there is none.
IndexOf(s, tok) ==
    IF Contains(s, tok)
    THEN CHOOSE i \in 1..Len(s) :
            /\ s[i] = tok
            /\ \A j \in 1..(i - 1) : s[j] # tok
    ELSE 0

\* str.split(sep, maxsplit=1): a list of one or two strings.
Split1(s, sep) ==
    LET i == IndexOf(s, sep)
    IN  IF i = 0 THEN <<s>>
        ELSE <<SubSeq(s, 1, i - 1), SubSeq(s, i + 1, Len(s))>>

\* str.split(sep): the list of the strings between the separators.
RECURSIVE Split(_, _)
Split(s, sep) ==
    LET i == IndexOf(s, sep)
    IN  IF i = 0 THEN <<s>>
        ELSE <<SubSeq(s, 1, i - 1)>> \o Split(SubSeq(s, i + 1, Len(s)), sep)

\* x in list
InList(x, list) == \E i \in 1..Len(list) : list[i] = x

(***************************************************************************)
(* platforms.py: the platforms and their architectures, in the order the   *)
(* module creates them.                                                    *)
(***************************************************************************)
all_platforms == <<
    <<"android">>, <<"ios">>, <<"linux">>, <<"macos">>, <<"win">> >>

\* Each architecture is <<name, platform name>>.
all_architectures == <<
    [name |-> <<"android", "-", "32">>, platform |-> <<"android">>],
    [name |-> <<"android", "-", "64">>, platform |-> <<"android">>],
    [name |-> <<"ios", "-", "64">>,     platform |-> <<"ios">>],
    [name |-> <<"linux", "-", "32">>,   platform |-> <<"linux">>],
    [name |-> <<"linux", "-", "64">>,   platform |-> <<"linux">>],
    [name |-> <<"macos", "-", "64">>,   platform |-> <<"macos">>],
    [name |-> <<"win", "-", "32">>,     platform |-> <<"win">>],
    [name |-> <<"win", "-", "64">>,     platform |-> <<"win">>] >>

ArchNames == {all_architectures[i].name : i \in 1..Len(all_architectures)}

PlatformNames == {all_platforms[i] : i \in 1..Len(all_platforms)}

\* The platform of the architecture with a given name.
PlatformOf(a) ==
    LET i == CHOOSE k \in 1..Len(all_architectures) :
                all_architectures[k].name = a
    IN  all_architectures[i].platform

\* Platform.platform(name): the platform's name, or UserException.
PlatformLookup(name) ==
    IF \E i \in 1..Len(all_platforms) : all_platforms[i] = name
    THEN name
    ELSE UserException

\* Architecture.architecture(name), name not None: the name of the first
\* architecture with that name or of that platform, or UserException.
ArchitectureLookup(name) ==
    LET hits == {i \in 1..Len(all_architectures) :
                    \/ all_architectures[i].name = name
                    \/ all_architectures[i].platform = name}
    IN  IF hits = {} THEN UserException
        ELSE all_architectures[CHOOSE i \in hits :
                                    \A j \in hits : i <= j].name

Bool(b) == IF b THEN "True" ELSE "False"

\* A variant of is_targeted() in which a name with a "-" covers every
\* architecture of the platform of the architecture it names.
IsTargetedByPlatformOfArchitecture(a, t) ==
    IF t = Empty THEN "True"
    ELSE LET l == Split(t, "|")
         IN  IF Len(l) = 1
             THEN IF StartsWith(t, "!")
                  THEN IF PlatformLookup(Rest(t)) = UserException
                       THEN UserException
                       ELSE Bool(PlatformOf(a) # PlatformLookup(Rest(t)))
                  ELSE IF Contains(t, "-")
                  THEN IF ArchitectureLookup(t) = UserException
                       THEN UserException
                       ELSE Bool(PlatformOf(a)
                                     = PlatformOf(ArchitectureLookup(t)))
                  ELSE IF PlatformLookup(t) = UserException
                       THEN UserException
                       ELSE Bool(PlatformOf(a) = PlatformLookup(t))
             ELSE Bool(InList(PlatformOf(a), l))

\* Architecture.is_targeted(targets) for the architecture named a:
\* "True", "False" or, when it raises, UserException.
IsTargeted(a, t) ==
    IF t = Empty THEN "True"
    ELSE LET l == Split(t, "|")
         IN  IF Len(l) = 1
             THEN IF StartsWith(t, "!")
                  THEN IF PlatformLookup(Rest(t)) = UserException
                       THEN UserException
                       ELSE Bool(PlatformOf(a) # PlatformLookup(Rest(t)))
                  ELSE IF Contains(t, "-")
                  THEN IF ArchitectureLookup(t) = UserException
                       THEN UserException
                       ELSE Bool(a = ArchitectureLookup(t))
                  ELSE IF PlatformLookup(t) = UserException
                       THEN UserException
                       ELSE Bool(PlatformOf(a) = PlatformLookup(t))
             ELSE Bool(InList(PlatformOf(a), l))

(***************************************************************************)
(* version_number.py.  A VersionNumber is a record of major, minor, patch  *)
(* and suffix; a suffix string is represented by its rank in Python's      *)
(* string order ('' is 0).  The right hand side of a comparison is an int, *)
(* a tuple of 1 to 4 elements or a VersionNumber.                          *)
(***************************************************************************)
VersionNumber(major, minor, patch, suffix) ==
    [major |-> major, minor |-> minor, patch |-> patch, suffix |-> suffix]

IntOther(n) == [type |-> "int", value |-> <<n>>]

TupleOther(t) == [type |-> "tuple", value |-> t]

VersionOther(v) ==
    [type |-> "VersionNumber",
     value |-> <<v.major, v.minor, v.patch, v.suffix>>]

\* An absent element of the 4-tuple _resolve_other() returns.
Absent == -1

\* VersionNumber._resolve_other(other): the 4-tuple, Absent for None.
ResolveOther(other) ==
    IF other.type = "int"
    THEN <<other.value[1], Absent, Absent, Absent>>
    ELSE [i \in 1..4 |->
            IF i <= Len(other.value) THEN other.value[i] ELSE Absent]

\* VersionNumber.__eq__
VersionEq(v, other) ==
    LET o == ResolveOther(other)
    IN  IF v.major # o[1] THEN FALSE
        ELSE IF o[2] = Absent THEN TRUE
        ELSE IF v.minor # o[2] THEN FALSE
        ELSE IF o[3] = Absent THEN TRUE
        ELSE IF v.patch # o[3] THEN FALSE
        ELSE IF o[4] = Absent THEN TRUE
        ELSE v.suffix = o[4]

\* A variant of __gt__ that goes on to the elements of the version number
\* the right hand side does not have, taking 0 for what is absent.
VersionGtAllElements(v, other) ==
    LET o == ResolveOther(other)
        e(i) == IF o[i] = Absent THEN 0 ELSE o[i]
    IN  IF v.major # e(1) THEN v.major > e(1)
        ELSE IF v.minor # e(2) THEN v.minor > e(2)
        ELSE IF v.patch # e(3) THEN v.patch > e(3)
        ELSE v.suffix > e(4)

\* VersionNumber.__gt__
VersionGt(v, other) ==
    LET o == ResolveOther(other)
    IN  IF v.major > o[1] THEN TRUE
        ELSE IF v.major < o[1] \/ o[2] = Absent THEN FALSE
        ELSE IF v.minor > o[2] THEN TRUE
        ELSE IF v.minor < o[2] \/ o[3] = Absent THEN FALSE
        ELSE IF v.patch > o[3] THEN TRUE
        ELSE IF v.patch < o[3] \/ o[4] = Absent THEN FALSE
        ELSE v.suffix > o[4]

\* VersionNumber.__lt__
VersionLt(v, other) ==
    LET o == ResolveOther(other)
    IN  IF v.major < o[1] THEN TRUE
        ELSE IF v.major > o[1] \/ o[2] = Absent THEN FALSE
        ELSE IF v.minor < o[2] THEN TRUE
        ELSE IF v.minor > o[2] \/ o[3] = Absent THEN FALSE
        ELSE IF v.patch < o[3] THEN TRUE
        ELSE IF v.patch > o[3] \/ o[4] = Absent THEN FALSE
        ELSE v.suffix < o[4]

\* A variant of __ge__ that is __gt__.
VersionGeIsGt(v, other) == VersionGt(v, other)

\* VersionNumber.__ge__
VersionGe(v, other) ==
    LET o == ResolveOther(other)
    IN  IF v.major < o[1] THEN FALSE
        ELSE IF v.major > o[1] THEN TRUE
        ELSE IF o[2] = Absent THEN TRUE
        ELSE IF v.minor < o[2] THEN FALSE
        ELSE IF v.minor > o[2] THEN TRUE
        ELSE IF o[3] = Absent THEN TRUE
        ELSE IF v.patch < o[3] THEN FALSE
        ELSE IF v.patch > o[3] THEN TRUE
        ELSE IF o[4] = Absent THEN TRUE
        ELSE v.suffix >= o[4]

\* VersionNumber.__le__
VersionLe(v, other) ==
    LET o == ResolveOther(other)
    IN  IF v.major > o[1] THEN FALSE
        ELSE IF v.major < o[1] THEN TRUE
        ELSE IF o[2] = Absent THEN TRUE
        ELSE IF v.minor > o[2] THEN FALSE
        ELSE IF v.minor < o[2] THEN TRUE
        ELSE IF o[3] = Absent THEN TRUE
        ELSE IF v.patch > o[3] THEN FALSE
        ELSE IF v.patch < o[3] THEN TRUE
        ELSE IF o[4] = Absent THEN TRUE
        ELSE v.suffix <= o[4]

\* What the five comparison operators return for v and a right hand side.
Comparison(v, other) ==
    [eq |-> VersionEq(v, other), gt |-> VersionGt(v, other),
     lt |-> VersionLt(v, other), ge |-> VersionGe(v, other),
     le |-> VersionLe(v, other)]

(***************************************************************************)
(* parts.py.  An attribute that may be None holds NONE or Some(value).     *)
(***************************************************************************)
NONE == <<>>

Some(x) == <<x>>

\* Part.__init__ (and its subclasses): the attributes and their defaults.
\* "template" is the identity of the object: NONE for an object of its own,
\* Some(k) for the object that is itself the k-th last element of the
\* tuple of version specific parts that provides has under its name.
Part == [
    template        |-> NONE,
    kind            |-> "PythonModule",
    min_version     |-> NONE,
    version         |-> NONE,
    max_version     |-> NONE,
    name            |-> NONE,
    target          |-> Empty,
    min_android_api |-> NONE,
    internal        |-> FALSE,
    core            |-> FALSE,
    deps            |-> <<>>,
    hidden_deps     |-> <<>>,
    defines         |-> NONE,
    libs            |-> NONE,
    includepath     |-> NONE,
    source          |-> NONE ]

CompiledKinds == {"CompiledPart", "ComponentLibrary", "ExtensionModule"}

\* Part.get_name
GetName(component_name, unscoped_name) ==
    component_name \o <<":">> \o unscoped_name

\* Part.get_name_parts
GetNameParts(name) == Split1(name, ":")

\* Part.get_unscoped_name
GetUnscopedName(name) == GetNameParts(name)[2]

\* Part.is_scoped_name
IsScopedName(name) == Contains(name, ":")

\* Part.applies_to
AppliesTo(part, version) ==
    IF part.version # NONE THEN VersionEq(version, part.version[1])
    ELSE IF part.min_version # NONE /\ VersionLt(version, part.min_version[1])
    THEN FALSE
    ELSE IF part.max_version # NONE /\ VersionGt(version, part.max_version[1])
    THEN FALSE
    ELSE TRUE

(***************************************************************************)
(* abstract_component.py: the normalisation of a part for the version of   *)
(* the component (self.version), its name (self.name) and the target       *)
(* architecture of the sysroot.  An operation that can raise returns a     *)
(* record: raised, and its value when it did not raise.                    *)
(***************************************************************************)
Raise == [raised |-> TRUE, value |-> NONE]

Return(x) == [raised |-> FALSE, value |-> x]

\* The value of an operation that raises when one of its parts raised.
Raises(results) == \E i \in 1..Len(results) : results[i].raised

\* _targeted_value, given the outcome c of is_targeted() for the target part
\* of the value.
TargetedValueFor(c, value) ==
    IF c = UserException THEN Raise
    ELSE IF c = "False" THEN Return(NONE)
    ELSE Return(Some(value))

\* AbstractComponent._targeted_value: Some(value), or NONE when the value is
\* not for the target.
TargetedValue(value, target) ==
    IF Contains(value, "#")
    THEN TargetedValueFor(IsTargeted(target, Split1(value, "#")[1]),
                          Split1(value, "#")[2])
    ELSE Return(Some(value))

\* One pass of the loop of _normalised_deps: tv is the targeted value of
\* the dependency, rest the outcome of the later passes.
ScopedDep(component_name, tv, rest) ==
    IF tv.raised \/ rest.raised THEN Raise
    ELSE IF tv.value = NONE THEN rest
    ELSE Return(<<GetName(component_name, tv.value[1])>> \o rest.value)

\* AbstractComponent._normalised_deps
RECURSIVE NormalisedDeps(_, _, _)
NormalisedDeps(deps, self_name, target) ==
    IF deps = <<>> THEN Return(<<>>)
    ELSE ScopedDep(
            IF IsScopedName(Head(deps)) THEN GetNameParts(Head(deps))[1]
            ELSE self_name,
            TargetedValue(
                IF IsScopedName(Head(deps)) THEN GetNameParts(Head(deps))[2]
                ELSE Head(deps),
                target),
            NormalisedDeps(Tail(deps), self_name, target))

\* One pass of the loop of _normalised_values.
ResolvedValue(tv, rest) ==
    IF tv.raised \/ rest.raised THEN Raise
    ELSE IF tv.value = NONE THEN rest
    ELSE Return(<<tv.value[1]>> \o rest.value)

RECURSIVE NormalisedList(_, _)
NormalisedList(values, target) ==
    IF values = <<>> THEN Return(<<>>)
    ELSE ResolvedValue(TargetedValue(Head(values), target),
                       NormalisedList(Tail(values), target))

\* The return of _normalised_values: None for an empty list.
ResolvedValues(r) ==
    IF r.raised THEN Raise
    ELSE IF r.value = <<>> THEN Return(NONE)
    ELSE Return(Some(r.value))

\* AbstractComponent._normalised_values; values is NONE or Some(list).
NormalisedValues(values, target) ==
    IF values = NONE THEN Return(NONE)
    ELSE ResolvedValues(NormalisedList(values[1], target))

\* The deep copy of _normalised_part with its attributes replaced.
NormalisedCopyOf(part, name, deps, hidden, defines, includepath, libs, source) ==
    IF Raises(<<deps, hidden, defines, includepath, libs, source>>)
    THEN Raise
    ELSE Return(Some([part EXCEPT
            !.name = Some(name),
            !.deps = deps.value,
            !.hidden_deps = hidden.value,
            !.defines = defines.value,
            !.includepath = includepath.value,
            !.libs = libs.value,
            !.source = source.value]))

\* A variant of DeepCopy that returns the part itself, the k-th last of the
\* version specific parts.
SamePart(part, k) == [part EXCEPT !.template = Some(k)]

\* copy.deepcopy(part): a new object with the attributes of the part.
DeepCopy(part, k) == [part EXCEPT !.template = NONE]

\* The body of the loop of _normalised_part for a part that applies and is
\* for the target: the attributes of the deep copy are set to its scoped
\* name and to its normalised names and values.
NormalisedCopy(part, unscoped_name, self_name, target) ==
    NormalisedCopyOf(part, GetName(self_name, unscoped_name),
        NormalisedDeps(part.deps, self_name, target),
        NormalisedDeps(part.hidden_deps, self_name, target),
        IF part.kind \in CompiledKinds
        THEN NormalisedValues(part.defines, target) ELSE Return(part.defines),
        IF part.kind \in CompiledKinds
        THEN NormalisedValues(part.includepath, target)
        ELSE Return(part.includepath),
        IF part.kind \in CompiledKinds
        THEN NormalisedValues(part.libs, target) ELSE Return(part.libs),
        IF part.kind = "ExtensionModule"
        THEN NormalisedValues(part.source, target) ELSE Return(part.source))

\* Whether a part is for the target: "True", "False" or UserException.
ForTarget(part, target) ==
    IF part.target = Empty THEN "True" ELSE IsTargeted(target, part.target)

\* AbstractComponent._normalised_part; versions is the tuple of the version
\* specific parts.  Returns NONE or Some(part), or raises.
RECURSIVE NormalisedPartFallsThrough(_, _, _, _, _)
NormalisedPartFallsThrough(unscoped_name, versions, self_name, version, target) ==
    IF versions = <<>> THEN Return(NONE)
    ELSE IF ~AppliesTo(Head(versions), version)
            \/ ForTarget(Head(versions), target) = "False"
    THEN NormalisedPartFallsThrough(unscoped_name, Tail(versions), self_name,
                version, target)
    ELSE IF ForTarget(Head(versions), target) = UserException THEN Raise
    ELSE NormalisedCopy(DeepCopy(Head(versions), Len(versions)),
                        unscoped_name, self_name, target)

RECURSIVE NormalisedPartLastMatch(_, _, _, _, _)
NormalisedPartLastMatch(unscoped_name, versions, self_name, version, target) ==
    IF versions = <<>> THEN Return(NONE)
    ELSE IF ~AppliesTo(versions[Len(versions)], version)
    THEN NormalisedPartLastMatch(unscoped_name,
                SubSeq(versions, 1, Len(versions) - 1), self_name, version,
                target)
    ELSE IF ForTarget(versions[Len(versions)], target) = UserException THEN Raise
    ELSE IF ForTarget(versions[Len(versions)], target) = "False"
    THEN Return(NONE)
    ELSE NormalisedCopy(DeepCopy(versions[Len(versions)], 1),
                        unscoped_name, self_name, target)

RECURSIVE NormalisedPart(_, _, _, _, _)
NormalisedPart(unscoped_name, versions, self_name, version, target) ==
    IF versions = <<>> THEN Return(NONE)
    ELSE IF ~AppliesTo(Head(versions), version)
    THEN NormalisedPart(unscoped_name, Tail(versions), self_name, version,
                target)
    ELSE IF ForTarget(Head(versions), target) = UserException THEN Raise
    ELSE IF ForTarget(Head(versions), target) = "False" THEN Return(NONE)
    ELSE NormalisedCopy(DeepCopy(Head(versions), Len(versions)),
                        unscoped_name, self_name, target)

(***************************************************************************)
(* A Python dict: the sequence of its items, in insertion order.           *)
(***************************************************************************)
Item(k, v) == [k |-> k, v |-> v]

Keys(d) == {d[i].k : i \in 1..Len(d)}

\* k in d
HasKey(d, k) == \E i \in 1..Len(d) : d[i].k = k

\* d[k], for a key of d
Lookup(d, k) == d[CHOOSE i \in 1..Len(d) : d[i].k = k].v

\* d[k] = v
Store(d, k, v) ==
    IF HasKey(d, k)
    THEN [i \in 1..Len(d) |-> IF d[i].k = k THEN Item(k, v) ELSE d[i]]
    ELSE Append(d, Item(k, v))

\* {n: p for n, p in d.items() if p is not None}
RECURSIVE WithoutNone(_)
WithoutNone(d) ==
    IF d = <<>> THEN <<>>
    ELSE IF Head(d).v = NONE THEN WithoutNone(Tail(d))
    ELSE <<Head(d)>> \o WithoutNone(Tail(d))

(***************************************************************************)
(* sysroot.py and abstract_component.py: the components of a sysroot and   *)
(* the parts each provides.  A component is a record of its name, its      *)
(* version and its provides dict; self._parts is memo[name].               *)
(***************************************************************************)
ComponentNames(sr) == {sr.components[i].name : i \in 1..Len(sr.components)}

\* Sysroot.get_component(name, required=False): NONE or Some(component).
GetComponent(sr, name) ==
    IF name \in ComponentNames(sr)
    THEN Some(sr.components[CHOOSE i \in 1..Len(sr.components) :
                                sr.components[i].name = name])
    ELSE NONE

\* The tuple of version specific parts of an item of provides.
VersionsOf(item) == item.v

\* One pass of the first loop of parts: n is the normalised part, rest the
\* outcome of the later passes.
ProvidedPart(n, rest) ==
    IF n.raised \/ rest.raised THEN Raise
    ELSE IF n.value = NONE THEN rest
    ELSE Return(<<Item(n.value[1].name[1], n.value[1])>> \o rest.value)

\* The first loop of parts: the dict of the normalised parts provided for
\* the version and target.  Each pass normalises one part and has one
\* outcome, the element of the set.
RECURSIVE ProvidedParts(_, _, _)
ProvidedParts(provides, comp, target) ==
    IF provides = <<>> THEN Return(<<>>)
    ELSE CHOOSE r \in
            {ProvidedPart(n, rest) :
                n \in {NormalisedPart(Head(provides).k,
                            VersionsOf(Head(provides)), comp.name,
                            comp.version, target)},
                rest \in {ProvidedParts(Tail(provides), comp, target)}} : TRUE

\* The frame of a call of the parts property that computes the table.
PartsFrame(self, provides) ==
    [fn |-> "parts", self |-> self, provides |-> provides, i |-> 1,
     name |-> Empty, part |-> NONE, deps |-> <<>>, j |-> 0,
     updated_deps |-> <<>>, waiting |-> FALSE]

\* The frame of a call of _add_part, at the start of its loop.
AddPartFrame(self, name, part, provides) ==
    [fn |-> "_add_part", self |-> self, provides |-> provides, i |-> 0,
     name |-> name, part |-> Some(part), deps |-> part.deps, j |-> 1,
     updated_deps |-> <<>>, waiting |-> FALSE]

Top == stack[Len(stack)]

Pop == SubSeq(stack, 1, Len(stack) - 1)

ReplaceTop(f) == [stack EXCEPT ![Len(stack)] = f]

\* The dependency an _add_part frame is at: its component, whether it is
\* required, whether it is only for a sysroot without OpenSSL, and its name
\* without the marker.
DepRequiredAlways(part_name) == TRUE

DepRequired(part_name) == ~StartsWith(part_name, "?")

DepOf(f) ==
    LET dep == f.deps[f.j]
        np == GetNameParts(dep)
        marked == StartsWith(np[2], "?") \/ StartsWith(np[2], "!")
    IN  [component_name |-> np[1],
         required |-> DepRequired(np[2]),
         unless_openssl |-> StartsWith(np[2], "!"),
         dep_name |-> IF marked THEN GetName(np[1], Rest(np[2])) ELSE dep]

\* The frame after a dependency that is not available: a required one makes
\* the part None, and ends the loop when leave is set.
Unavailable(f, required, leave) ==
    IF required
    THEN [f EXCEPT !.part = NONE, !.waiting = FALSE,
                   !.j = IF leave THEN Len(f.deps) + 1 ELSE f.j + 1]
    ELSE [f EXCEPT !.waiting = FALSE, !.j = f.j + 1]

\* The frame after a dependency that is available.
Available(f, dep_name) ==
    [f EXCEPT !.updated_deps = Append(f.updated_deps, dep_name),
              !.waiting = FALSE, !.j = f.j + 1]

\* A variant of AfterSameComponent for which a dependency that is still
\* being visited is not available.
AfterSameComponentUnlessVisited(f, parts) ==
    IF \/ Lookup(parts, DepOf(f).dep_name) = NONE
       \/ \E i \in 1..Len(stack) :
            /\ stack[i].fn = "_add_part"
            /\ stack[i].self = f.self
            /\ stack[i].name = DepOf(f).dep_name
    THEN Unavailable(f, DepOf(f).required, TRUE)
    ELSE Available(f, DepOf(f).dep_name)

\* After the call of _add_part for a dependency of the same component: was
\* it actually available.
AfterSameComponent(f, parts) ==
    IF Lookup(parts, DepOf(f).dep_name) = NONE
    THEN Unavailable(f, DepOf(f).required, TRUE)
    ELSE Available(f, DepOf(f).dep_name)

\* After reading the parts of the component of a dependency: the test
\* "component is None or dep_name not in component.parts" of _add_part, for
\* a component that is configured.
AfterOtherComponent(f, parts) ==
    IF ~HasKey(parts, DepOf(f).dep_name)
    THEN Unavailable(f, DepOf(f).required, FALSE)
    ELSE Available(f, DepOf(f).dep_name)

\* The sysroot after the attributes of a part have been set: an object of
\* its own leaves the provides dicts as they are, a part that is a version
\* specific part of provides is changed there.
WriteTemplate(sr, part) ==
    IF part.template = NONE THEN sr
    ELSE LET np == GetNameParts(part.name[1])
             c == CHOOSE i \in 1..Len(sr.components) :
                      sr.components[i].name = np[1]
             n == CHOOSE i \in 1..Len(sr.components[c].provides) :
                      sr.components[c].provides[i].k = np[2]
             v == Len(sr.components[c].provides[n].v) - part.template[1] + 1
         IN  [sr EXCEPT !.components[c].provides[n].v[v] =
                            [part EXCEPT !.template = NONE]]

\* The same for every part of the dict of the normalised parts.
RECURSIVE WriteTemplates(_, _)
WriteTemplates(sr, provides) ==
    IF provides = <<>> THEN sr
    ELSE WriteTemplates(WriteTemplate(sr, Head(provides).v), Tail(provides))

\* A variant of AlreadyAdded that never finds the name.
NeverAdded(parts, name) == FALSE

\* _add_part, the trivial case: "if name in self._parts: return".
AlreadyAdded(parts, name) == HasKey(parts, name)

\* The start of the parts property of a component when self._parts is
\* None, given the outcome of its first loop: the new memo and the new
\* stack (frame on top of below), or the exception of a target predicate.
EnterParts(self, provides, below) ==
    IF provides.raised
    THEN /\ raised' = TRUE
         /\ UNCHANGED <<sysroot, memo, stack>>
    ELSE /\ sysroot' = Some(WriteTemplates(sysroot[1], provides.value))
         /\ memo' = [memo EXCEPT ![self] = Some(<<>>)]
         /\ stack' = Append(below, PartsFrame(self, provides.value))
         /\ UNCHANGED raised

\* builder.py, build(): "for component in self._sysroot.components:
\* available_parts.update(component.parts)", one component at a time.
GetParts ==
    /\ sysroot # NONE
    /\ ~raised
    /\ stack = <<>>
    /\ ci < Len(sysroot[1].components)
    /\ ci' = ci + 1
    /\ LET comp == sysroot[1].components[ci + 1]
       IN  IF memo[comp.name] # NONE
           THEN UNCHANGED <<sysroot, memo, stack, raised>>
           ELSE \E provides \in
                       {ProvidedParts(comp.provides, comp, sysroot[1].target)} :
                    EnterParts(comp.name, provides, stack)
    /\ UNCHANGED <<earlier_parts, targetVars, variantVars, buildVars,
                   sessionVars, laterVars>>

\* parts: the second loop calls _add_part for the next provided part;
\* _add_part returns at once for a name in self._parts, and otherwise saves
\* the part and starts its loop over the dependencies.
PartsAddPart ==
    /\ stack # <<>>
    /\ ~raised
    /\ Top.fn = "parts"
    /\ Top.i <= Len(Top.provides)
    /\ LET f == Top
           item == f.provides[f.i]
           next == [f EXCEPT !.i = f.i + 1]
       IN  IF AlreadyAdded(memo[f.self][1], item.k)
           THEN /\ stack' = ReplaceTop(next)
                /\ UNCHANGED memo
           ELSE /\ memo' = [memo EXCEPT ![f.self] =
                                Some(Store(memo[f.self][1], item.k, Some(item.v)))]
                /\ stack' = Append(ReplaceTop(next),
                                AddPartFrame(f.self, item.k, item.v, f.provides))
    /\ UNCHANGED <<sysroot, ci, raised>>
    /\ UNCHANGED <<earlier_parts, targetVars, variantVars, buildVars,
                   sessionVars, laterVars>>

\* parts: after the second loop the unavailable parts are removed and the
\* table is returned.
PartsReturn ==
    /\ stack # <<>>
    /\ ~raised
    /\ Top.fn = "parts"
    /\ Top.i > Len(Top.provides)
    /\ memo' = [memo EXCEPT ![Top.self] = Some(WithoutNone(memo[Top.self][1]))]
    /\ stack' = Pop
    /\ UNCHANGED <<sysroot, ci, raised>>
    /\ UNCHANGED <<earlier_parts, targetVars, variantVars, buildVars,
                   sessionVars, laterVars>>

\* _add_part: one pass of the loop over part.deps, up to the call it makes
\* (of _add_part for a part of this component, of parts for one of another
\* component) when that call has work to do.
AddPartDependency ==
    /\ stack # <<>>
    /\ ~raised
    /\ Top.fn = "_add_part"
    /\ ~Top.waiting
    /\ Top.j <= Len(Top.deps)
    /\ LET f == Top
           d == DepOf(f)
           openssl == GetComponent(sysroot[1], <<"OpenSSL">>)
           component == GetComponent(sysroot[1], d.component_name)
       IN  IF d.unless_openssl /\ openssl # NONE
           THEN /\ stack' = ReplaceTop([f EXCEPT !.j = f.j + 1])
                /\ UNCHANGED <<sysroot, memo, raised>>
           ELSE IF f.self = d.component_name
           THEN IF ~HasKey(f.provides, d.dep_name)
                THEN /\ stack' = ReplaceTop(Unavailable(f, d.required, TRUE))
                     /\ UNCHANGED <<sysroot, memo, raised>>
                ELSE IF AlreadyAdded(memo[f.self][1], d.dep_name)
                THEN /\ stack' = ReplaceTop(AfterSameComponent(f, memo[f.self][1]))
                     /\ UNCHANGED <<sysroot, memo, raised>>
                ELSE /\ memo' = [memo EXCEPT ![f.self] =
                                    Some(Store(memo[f.self][1], d.dep_name,
                                            Some(Lookup(f.provides, d.dep_name))))]
                     /\ stack' = Append(ReplaceTop([f EXCEPT !.waiting = TRUE]),
                                    AddPartFrame(f.self, d.dep_name,
                                        Lookup(f.provides, d.dep_name), f.provides))
                     /\ UNCHANGED <<sysroot, raised>>
           ELSE IF component = NONE
           THEN /\ stack' = ReplaceTop(Unavailable(f, d.required, FALSE))
                /\ UNCHANGED <<sysroot, memo, raised>>
           ELSE IF memo[d.component_name] # NONE
           THEN /\ stack' = ReplaceTop(
                                AfterOtherComponent(f, memo[d.component_name][1]))
                /\ UNCHANGED <<sysroot, memo, raised>>
           ELSE \E provides \in
                       {ProvidedParts(component[1].provides, component[1],
                                      sysroot[1].target)} :
                    EnterParts(d.component_name, provides,
                               ReplaceTop([f EXCEPT !.waiting = TRUE]))
    /\ UNCHANGED ci
    /\ UNCHANGED <<earlier_parts, targetVars, variantVars, buildVars,
                   sessionVars, laterVars>>

\* _add_part: the rest of a pass of the loop, after the call it made has
\* returned.
AddPartResume ==
    /\ stack # <<>>
    /\ ~raised
    /\ Top.fn = "_add_part"
    /\ Top.waiting
    /\ LET f == Top
           d == DepOf(f)
       IN  stack' = ReplaceTop(
                IF f.self = d.component_name
                THEN AfterSameComponent(f, memo[f.self][1])
                ELSE AfterOtherComponent(f, memo[d.component_name][1]))
    /\ UNCHANGED <<sysroot, memo, ci, raised>>
    /\ UNCHANGED <<earlier_parts, targetVars, variantVars, buildVars,
                   sessionVars, laterVars>>

\* _add_part: after the loop the dependencies of an available part are
\* replaced and the entry of the part is updated.
AddPartReturn ==
    /\ stack # <<>>
    /\ ~raised
    /\ Top.fn = "_add_part"
    /\ ~Top.waiting
    /\ Top.j > Len(Top.deps)
    /\ LET f == Top
           part == IF f.part = NONE THEN NONE
                   ELSE Some([f.part[1] EXCEPT !.deps = f.updated_deps])
       IN  /\ memo' = [memo EXCEPT ![f.self] =
                            Some(Store(memo[f.self][1], f.name, part))]
           /\ sysroot' = IF part = NONE THEN sysroot
                         ELSE Some(WriteTemplate(sysroot[1], part[1]))
    /\ stack' = Pop
    /\ UNCHANGED <<ci, raised>>
    /\ UNCHANGED <<earlier_parts, targetVars, variantVars, buildVars,
                   sessionVars, laterVars>>

(***************************************************************************)
(* builder/builder.py: build() collects the parts of the sysroot and then  *)
(* the parts the project requires.  A finished parts table is a dict of    *)
(* scoped name to Some(part).                                              *)
(***************************************************************************)
\* sep.join(list)
RECURSIVE Join(_, _)
Join(list, sep) ==
    IF Len(list) = 0 THEN Empty
    ELSE IF Len(list) = 1 THEN list[1]
    ELSE list[1] \o <<sep>> \o Join(Tail(list), sep)

\* d.get(k)
Get(d, k) == IF HasKey(d, k) THEN Lookup(d, k) ELSE NONE

\* d.update(e)
RECURSIVE Update(_, _)
Update(d, e) ==
    IF e = <<>> THEN d
    ELSE Update(Store(d, e[1].k, e[1].v), Tail(e))

\* '.'.join(unscoped_name.split('.')[:-1])
UnscopedParentName(part_name) ==
    LET names == Split(GetUnscopedName(part_name), ".")
    IN  Join(SubSeq(names, 1, Len(names) - 1), ".")

\* A variant of ParentName without the else of the for loop: after a loop
\* without a break parent_name is the name made for the last component.
RECURSIVE ParentNameOfLast(_, _)
ParentNameOfLast(unscoped_parent_name, components) ==
    IF components = <<>> THEN NONE
    ELSE IF \/ Len(components) = 1
            \/ HasKey(components[1].parts,
                      GetName(components[1].name, unscoped_parent_name))
    THEN Some(GetName(components[1].name, unscoped_parent_name))
    ELSE ParentNameOfLast(unscoped_parent_name, Tail(components))

\* The for loop of _add_project_part() over the components: Some(the
\* scoped name of the parent in the first component that has it), or NONE
\* when the loop ends without a break.
RECURSIVE ParentName(_, _)
ParentName(unscoped_parent_name, components) ==
    IF components = <<>> THEN NONE
    ELSE IF HasKey(components[1].parts,
                   GetName(components[1].name, unscoped_parent_name))
    THEN Some(GetName(components[1].name, unscoped_parent_name))
    ELSE ParentName(unscoped_parent_name, Tail(components))

\* The Android API level test of _add_project_part().
BelowAndroidAPI(part, target) ==
    /\ target.platform = <<"android">>
    /\ part.min_android_api # NONE
    /\ part.min_android_api[1] > target.android_api

\* _add_project_part(): the dict of the required parts after the call.
RECURSIVE AddProjectPart(_, _, _, _)
RECURSIVE AddProjectParts(_, _, _, _)
RECURSIVE AddProvidedPart(_, _, _, _)
AddProjectPart(part_name, done, available, sr) ==
    IF HasKey(done, part_name) THEN done
    ELSE IF Contains(part_name, ".")
    THEN IF ParentName(UnscopedParentName(part_name), sr.components) = NONE
         THEN done
         ELSE AddProvidedPart(part_name,
                  AddProjectPart(
                      ParentName(UnscopedParentName(part_name),
                                 sr.components)[1],
                      done, available, sr),
                  available, sr)
    ELSE AddProvidedPart(part_name, done, available, sr)

\* _add_project_part() from "part = available_parts.get(part_name)" on.
AddProvidedPart(part_name, done, available, sr) ==
    IF Get(available, part_name) = NONE THEN done
    ELSE IF BelowAndroidAPI(Get(available, part_name)[1], sr.target)
    THEN done
    ELSE AddProjectParts(Get(available, part_name)[1].hidden_deps,
             AddProjectParts(Get(available, part_name)[1].deps,
                 Store(done, part_name, Get(available, part_name)),
                 available, sr),
             available, sr)

\* "for dep in ...: self._add_project_part(dep, parts, available_parts)"
AddProjectParts(deps, done, available, sr) ==
    IF deps = <<>> THEN done
    ELSE AddProjectParts(Tail(deps),
             AddProjectPart(deps[1], done, available, sr), available, sr)

\* "for component in self._sysroot.components:
\*      available_parts.update(component.parts)"
RECURSIVE AllParts(_, _)
AllParts(components, d) ==
    IF components = <<>> THEN d
    ELSE AllParts(Tail(components), Update(d, components[1].parts))

\* A variant of IsCorePart that takes the extension modules.
IsCoreExtensionModule(part) ==
    /\ part.kind = "ExtensionModule"
    /\ part.core

\* The test of build() for a core part of Python to be included always.
IsCorePart(part) ==
    /\ part.kind \in {"PythonModule", "PythonPackage"}
    /\ part.core

\* The loop of build() over python.parts.items().
RECURSIVE AddCoreParts(_, _, _, _)
AddCoreParts(items, done, available, sr) ==
    IF items = <<>> THEN done
    ELSE AddCoreParts(Tail(items),
             IF IsCorePart(items[1].v[1])
             THEN AddProjectPart(items[1].k, done, available, sr)
             ELSE done,
             available, sr)

\* sysroot.get_component('Python')
PythonComponent(sr) ==
    sr.components[CHOOSE i \in 1..Len(sr.components) :
                      sr.components[i].name = <<"Python">>]

\* build(): get all the parts provided by the sysroot.
BuildAvailableParts ==
    /\ build_pc = "available"
    /\ available_parts' = AllParts(build_sysroot[1].components, <<>>)
    /\ required_parts' = <<>>
    /\ build_pc' = "core"
    /\ UNCHANGED <<build_sysroot, project_parts>>
    /\ UNCHANGED <<targetVars, variantVars, resolveVars, sessionVars,
                   laterVars>>

\* build(): always include the core Python modules and their
\* dependencies.
BuildCoreParts ==
    /\ build_pc = "core"
    /\ required_parts' =
           AddCoreParts(PythonComponent(build_sysroot[1]).parts,
                        required_parts, available_parts, build_sysroot[1])
    /\ build_pc' = "project"
    /\ UNCHANGED <<build_sysroot, project_parts, available_parts>>
    /\ UNCHANGED <<targetVars, variantVars, resolveVars, sessionVars,
                   laterVars>>

\* build(): "for part_name in project.parts:
\*               self._add_project_part(part_name, parts, available_parts)"
BuildProjectParts ==
    /\ build_pc = "project"
    /\ required_parts' = AddProjectParts(project_parts, required_parts,
                                         available_parts, build_sysroot[1])
    /\ build_pc' = "done"
    /\ UNCHANGED <<build_sysroot, project_parts, available_parts>>
    /\ UNCHANGED <<targetVars, variantVars, resolveVars, sessionVars,
                   laterVars>>

(***************************************************************************)
(* sysroot/specification.py: the components a specification yields for a   *)
(* target.  self._spec is a dict of component name to a dict of option     *)
(* name to a value or, for a target specific configuration, to a dict.     *)
(***************************************************************************)
\* A value of the specification that is not a dict: a list of strings.
SpecValue(value) == [dict |-> FALSE, value |-> value, items |-> <<>>]

\* A value of the specification that is a dict.
SpecDict(items) == [dict |-> TRUE, value |-> <<>>, items |-> items]

\* del d[k]
RECURSIVE Del(_, _)
Del(d, k) ==
    IF d = <<>> THEN <<>>
    ELSE IF Head(d).k = k THEN Tail(d)
    ELSE <<Head(d)>> \o Del(Tail(d), k)

\* Architecture.is_targeted(targets) for targets that is a sequence of
\* platform names rather than a string.
IsTargetedSequence(a, t) ==
    IF t = <<>> THEN TRUE ELSE InList(PlatformOf(a), t)

\* The component is disabled for the target.
IsDisabled(value, target) ==
    /\ HasKey(value, <<"disabled_targets">>)
    /\ IsTargetedSequence(target, Lookup(value, <<"disabled_targets">>).value)

\* The dict of a component that is not disabled, after
\* "del value['disabled_targets']".
WithoutDisabledTargets(value) ==
    IF HasKey(value, <<"disabled_targets">>)
    THEN Del(value, <<"disabled_targets">>)
    ELSE value

\* The component is not explicitly enabled for the target.
IsNotEnabled(value, target) ==
    /\ HasKey(value, <<"enabled_targets">>)
    /\ ~IsTargetedSequence(target, Lookup(value, <<"enabled_targets">>).value)

\* The dict of a component that is enabled, after
\* "del value['enabled_targets']".
WithoutEnabledTargets(value) ==
    IF HasKey(value, <<"enabled_targets">>)
    THEN Del(value, <<"enabled_targets">>)
    ELSE value

\* The loop over value.items(): the default configuration, and the items
\* of the last target specific configuration that is for the target.
RECURSIVE DefaultConfig(_)
DefaultConfig(value) ==
    IF value = <<>> THEN <<>>
    ELSE IF Head(value).v.dict THEN DefaultConfig(Tail(value))
    ELSE <<Head(value)>> \o DefaultConfig(Tail(value))

RECURSIVE TargetConfig(_, _)
TargetConfig(value, target) ==
    IF value = <<>> THEN <<>>
    ELSE IF /\ value[Len(value)].v.dict
            /\ IsTargeted(target, value[Len(value)].k) = "True"
    THEN value[Len(value)].v.items
    ELSE TargetConfig(SubSeq(value, 1, Len(value) - 1), target)

\* One pass of the loop over self._spec.items(): whether the component is
\* left out, the dict of the component after the pass and the
\* configuration the component is created with.
ComponentFor(value, target) ==
    IF IsDisabled(value, target)
    THEN [skip |-> TRUE, value |-> value, configuration |-> <<>>]
    ELSE IF IsNotEnabled(WithoutDisabledTargets(value), target)
    THEN [skip |-> TRUE, value |-> WithoutDisabledTargets(value),
          configuration |-> <<>>]
    ELSE [skip |-> FALSE,
          value |-> WithoutEnabledTargets(WithoutDisabledTargets(value)),
          configuration |->
              Update(DefaultConfig(
                         WithoutEnabledTargets(WithoutDisabledTargets(value))),
                     TargetConfig(
                         WithoutEnabledTargets(WithoutDisabledTargets(value)),
                         target))]

\* The outcome of the loop, from the outcome r of a pass for the component
\* called name and the outcome of the later passes.
CreatedComponents(name, r, rest) ==
    [components |->
         (IF r.skip THEN <<>>
          ELSE <<[name |-> name, configuration |-> r.configuration]>>)
             \o rest.components,
     spec |-> <<Item(name, r.value)>> \o rest.spec]

\* SysrootSpecification.create_components_for_target(): the list of the
\* components and self._spec after the call.
RECURSIVE CreateComponentsForTarget(_, _)
CreateComponentsForTarget(spec, target) ==
    IF spec = <<>> THEN [components |-> <<>>, spec |-> <<>>]
    ELSE CreatedComponents(Head(spec).k,
                           ComponentFor(Head(spec).v, target),
                           CreateComponentsForTarget(Tail(spec), target))

\* Sysroot.__init__() for a target: self.target and self.components.
NewSysroot(target, created) ==
    /\ sessions' = Append(sessions, [target |-> target,
                                     components |-> created.components])
    /\ self_spec' = created.spec

(***************************************************************************)
(* The specification of is_targeted(): any architecture, any predicate     *)
(* built from known and unknown names.                                     *)
(***************************************************************************)
\* The longest "|" separated list of the predicates tried.
MaxTargetList == 2

UnknownNames == {<<"beos">>, <<"beos", "-", "64">>, <<"win", "-", "128">>}

TargetNames == PlatformNames \cup ArchNames \cup UnknownNames

RECURSIVE TargetLists(_)
TargetLists(n) ==
    IF n = 1 THEN TargetNames
    ELSE TargetLists(n - 1) \cup
         {l \o <<"|">> \o x : l \in TargetLists(n - 1), x \in TargetNames}

TargetPredicates ==
    {Empty} \cup {<<"!">> \o x : x \in TargetNames} \cup TargetLists(MaxTargetList)

TargetIdle ==
    /\ targets = Empty
    /\ arch = Empty
    /\ covered = "idle"

VariantIdle ==
    /\ part_versions = <<>>
    /\ self_version = NONE
    /\ selected = NONE

ResolveIdle ==
    /\ sysroot = NONE
    /\ memo = <<>>
    /\ stack = <<>>
    /\ ci = 0
    /\ raised = FALSE
    /\ earlier_parts = NONE

BuildIdle ==
    /\ build_sysroot = NONE
    /\ project_parts = <<>>
    /\ available_parts = <<>>
    /\ required_parts = <<>>
    /\ build_pc = "idle"

SessionIdle ==
    /\ specification_file = <<>>
    /\ self_spec = <<>>
    /\ sessions = <<>>

CompareIdle ==
    /\ version_self = NONE
    /\ version_other = NONE
    /\ compared = NONE

QmakeIdle ==
    /\ qmake_build = NONE
    /\ pro_file = NONE
    /\ main_file = NONE

InstallIdle ==
    /\ install_args = NONE
    /\ install_run = NONE
    /\ manifest_file = NONE
    /\ sysroot_dir = {}
    /\ manifest = <<>>
    /\ install_status = <<>>
    /\ install_stack = <<>>
    /\ install_ci = 1
    /\ install_pc = "idle"
    /\ install_log = <<>>
    /\ install_error = NONE

ResourcesIdle ==
    /\ resources_contents = <<>>
    /\ nr_resources = 0
    /\ resource_files = NONE

LaterIdle == CompareIdle /\ QmakeIdle /\ InstallIdle /\ ResourcesIdle

InitTarget ==
    /\ targets \in TargetPredicates
    /\ arch \in ArchNames
    /\ covered = "idle"
    /\ VariantIdle
    /\ ResolveIdle
    /\ BuildIdle
    /\ SessionIdle
    /\ LaterIdle

EvalTarget ==
    /\ covered = "idle"
    /\ self_version = NONE
    /\ arch # Empty
    /\ covered' = IsTargeted(arch, targets)
    /\ UNCHANGED <<targets, arch, variantVars, resolveVars, buildVars,
                   sessionVars, laterVars>>

NextTarget == EvalTarget

SpecTarget == InitTarget /\ [][NextTarget]_vars

(***************************************************************************)
(* The specification of _normalised_part(): a component named A of any     *)
(* version, a tuple of version specific extension modules (the i-th has    *)
(* the i-th tag as its source), any of three target architectures.         *)
(***************************************************************************)
\* The most version specific parts of one name.
MaxVariants == 2

\* The largest major version number of the component.
MaxMajor == 7

\* The largest minor version number of the component.
MaxMinor == 1

VariantTags == <<"A", "B", "C", "D">>

VariantRanges == {
    [min_version |-> NONE, version |-> NONE, max_version |-> NONE],
    [min_version |-> NONE, version |-> NONE, max_version |-> Some(IntOther(5))],
    [min_version |-> Some(IntOther(6)), version |-> NONE, max_version |-> NONE],
    [min_version |-> Some(TupleOther(<<5, 1>>)), version |-> NONE,
     max_version |-> Some(TupleOther(<<6, 0>>))],
    [min_version |-> NONE, version |-> Some(TupleOther(<<5, 1>>)),
     max_version |-> NONE] }

VariantTargets == {Empty, <<"linux">>, <<"win", "-", "64">>}

VariantArchs == {<<"linux", "-", "64">>, <<"win", "-", "32">>, <<"win", "-", "64">>}

Variant(i, r, t) ==
    [Part EXCEPT
        !.kind = "ExtensionModule",
        !.min_version = r.min_version,
        !.version = r.version,
        !.max_version = r.max_version,
        !.target = t,
        !.source = Some(<< <<VariantTags[i]>> >>)]

RECURSIVE VariantTuples(_)
VariantTuples(n) ==
    IF n = 0 THEN {<<>>}
    ELSE {Append(vs, Variant(n, r, t)) :
            vs \in VariantTuples(n - 1), r \in VariantRanges, t \in VariantTargets}

InitVariant ==
    /\ targets = Empty
    /\ covered = "idle"
    /\ arch \in VariantArchs
    /\ \E n \in 1..MaxVariants : part_versions \in VariantTuples(n)
    /\ \E major \in 4..MaxMajor, minor \in 0..MaxMinor :
            self_version = Some(VersionNumber(major, minor, 0, 0))
    /\ selected = NONE
    /\ ResolveIdle
    /\ BuildIdle
    /\ SessionIdle
    /\ LaterIdle

SelectVariant ==
    /\ self_version # NONE
    /\ selected = NONE
    /\ selected' = Some(NormalisedPart(<<"m">>, part_versions, <<"A">>,
                                        self_version[1], arch))
    /\ UNCHANGED <<targetVars, part_versions, self_version, resolveVars,
                   buildVars, sessionVars, laterVars>>

NextVariant == SelectVariant

SpecVariant == InitVariant /\ [][NextVariant]_vars

(***************************************************************************)
(* The specification of the parts tables of a sysroot.  Component A        *)
(* provides partX and partW, in either order.  Component B, when it is     *)
(* configured (before or after A), provides partY for linux only.  An      *)
(* OpenSSL component may be configured.  The parts depend on each other,   *)
(* on a part nobody provides (partU, partZ) and on parts of the other      *)
(* component, with and without markers.  The tables are asked for in the   *)
(* order of the components, as build() does.                               *)
(***************************************************************************)
\* The most dependencies of one part.
MaxDeps == 2

Range(l) == {l[i] : i \in 1..Len(l)}

\* The lists of at most n different dependencies out of a set.
RECURSIVE DepLists(_, _)
DepLists(choices, n) ==
    IF n = 0 THEN {<<>>}
    ELSE DepLists(choices, n - 1) \cup
         {Append(l, x) : l \in DepLists(choices, n - 1), x \in choices}

NoRepeat(l) == \A i, j \in 1..Len(l) : l[i] = l[j] => i = j

XDepChoices == {
    <<"partW">>, <<"?", "partW">>, <<"!", "partW">>,
    <<"B", ":", "partY">>, <<"B", ":", "?", "partZ">>,
    <<"?", "B", ":", "partZ">> }

WDepChoices == {<<"partX">>, <<"partU">>}

YDepChoices == {<<"A", ":", "partX">>, <<"A", ":", "partW">>}

ResolveTargets == {<<"linux", "-", "64">>, <<"win", "-", "64">>}

ComponentVersion == VersionNumber(3, 7, 0, 0)

\* Component A; its provides dict has partX first or partW first.
ComponentA(xdeps, wdeps, wtarget, xfirst) ==
    LET x == Item(<<"partX">>, <<[Part EXCEPT !.deps = xdeps]>>)
        w == Item(<<"partW">>,
                  <<[Part EXCEPT !.deps = wdeps, !.target = wtarget]>>)
    IN  [name |-> <<"A">>, version |-> ComponentVersion,
         provides |-> IF xfirst THEN <<x, w>> ELSE <<w, x>>]

ComponentB(ydeps) ==
    [name |-> <<"B">>, version |-> ComponentVersion,
     provides |-> <<
        Item(<<"partY">>,
             <<[Part EXCEPT !.deps = ydeps, !.target = <<"linux">>]>>) >>]

ComponentOpenSSL ==
    [name |-> <<"OpenSSL">>, version |-> ComponentVersion, provides |-> <<>>]

XDepLists == {l \in DepLists(XDepChoices, MaxDeps) : NoRepeat(l)}

WDepLists == {l \in DepLists(WDepChoices, MaxDeps) : NoRepeat(l)}

YDepLists == {l \in DepLists(YDepChoices, MaxDeps) : NoRepeat(l)}

ComponentsA ==
    {ComponentA(xd, wd, wt, xfirst) :
        xd \in XDepLists, wd \in WDepLists, wt \in {Empty, <<"linux">>},
        xfirst \in BOOLEAN}

ComponentsB == {ComponentB(yd) : yd \in YDepLists}

\* The components of a sysroot, in the order of its specification.
ComponentLists ==
    {l \o o :
        l \in {<<a>> : a \in ComponentsA}
                \cup {<<a, b>> : a \in ComponentsA, b \in ComponentsB}
                \cup {<<b, a>> : a \in ComponentsA, b \in ComponentsB},
        o \in {<<>>, <<ComponentOpenSSL>>}}

Sysroots ==
    {[target |-> t, components |-> cs] :
        t \in ResolveTargets, cs \in ComponentLists}

Init ==
    /\ TargetIdle
    /\ VariantIdle
    /\ \E sr \in Sysroots :
        /\ sysroot = Some(sr)
        /\ memo = [c \in ComponentNames(sr) |-> NONE]
    /\ stack = <<>>
    /\ ci = 0
    /\ raised = FALSE
    /\ earlier_parts = NONE
    /\ BuildIdle
    /\ SessionIdle
    /\ LaterIdle

Next ==
    \/ GetParts
    \/ PartsAddPart
    \/ PartsReturn
    \/ AddPartDependency
    \/ AddPartResume
    \/ AddPartReturn

Spec == Init /\ [][Next]_vars

\* Every table has been asked for and returned.
Done ==
    /\ sysroot # NONE
    /\ stack = <<>>
    /\ ci = Len(sysroot[1].components)
    /\ ~raised

(***************************************************************************)
(* builder/builder.py: _write_qmake() accumulates the values of the qmake  *)
(* variables of the required parts in sets and writes them to the .pro     *)
(* file; _write_inittab() writes the table of the extension modules.  A    *)
(* string is a TLA+ string; StringOrder lists the strings in use in the    *)
(* order of Python's str comparison.  A line "VAR += a b" of the .pro file *)
(* is the record of VAR and <<a, b>>; the lines whose text is fixed are    *)
(* not part of the model.                                                  *)
(***************************************************************************)
StringOrder ==
    << "\"-framework Cocoa\"", "-L/src/lib", "-L/sysroot/lib", "-Llib",
       "-framework Cocoa", "-lpython3.7", "-lz", "/src/a.c", "/src/include",
       "/src/x.h", "/sysroot/include", "/sysroot/include/python3.7",
       "A", "A_DEF", "B", "B_DEF", "C", "a.c", "amod", "core", "exceptions", "gui",
       "include", "thread", "x.h", "zmod" >>

\* a < b for two strings
StrLess(a, b) ==
    \E i, j \in 1..Len(StringOrder) :
        StringOrder[i] = a /\ StringOrder[j] = b /\ i < j

\* sorted(values), for a set of strings
RECURSIVE SortedValues(_)
SortedValues(values) ==
    IF values = {} THEN <<>>
    ELSE LET first == CHOOSE x \in values :
                          \A y \in values : y = x \/ StrLess(x, y)
         IN  <<first>> \o SortedValues(values \ {first})

\* The orders in which the elements of a set can be iterated over: the
\* order of a set of str changes with the hash seed of the interpreter.
SetOrders(values) ==
    {o \in [1..Cardinality(values) -> values] :
        \A i, j \in 1..Cardinality(values) : o[i] = o[j] => i = j}

\* component.get_target_src_path(name): os.path.join(target_src_dir, name)
TargetSrcPath(name) ==
    ("a.c" :> "/src/a.c" @@ "x.h" :> "/src/x.h"
        @@ "include" :> "/src/include" @@ "lib" :> "/src/lib")[name]

\* _add_values(): the set of used values with the values of a part.
AddValue(value, is_filename) ==
    IF is_filename THEN TargetSrcPath(value)
    ELSE IF value = "-Llib" THEN "-L/src/lib"
    ELSE value

AddValues(used_values, values, is_filename) ==
    IF values = NONE THEN used_values
    ELSE used_values
            \cup {AddValue(values[1][i], is_filename) :
                     i \in 1..Len(values[1])}

\* An extension module as _write_qmake() reads it.
ExtensionModule(unscoped_name, qmake_qt, qmake_config, defines, libs) ==
    [kind |-> "ExtensionModule", unscoped_name |-> unscoped_name,
     core |-> FALSE, source |-> Some(<<"a.c", "x.h">>),
     qmake_config |-> qmake_config, qmake_qt |-> qmake_qt,
     defines |-> defines, libs |-> libs, includepath |-> Some(<<"include">>)]

\* The sets _write_qmake() starts from.
NoUsedValues ==
    [qmake_config |-> {}, qmake_qt |-> {}, used_defines |-> {},
     used_includepath |-> {"/sysroot/include", "/sysroot/include/python3.7"},
     used_inittab |-> {},
     used_libs |-> {"-L/sysroot/lib", "-lpython3.7"},
     used_sources |-> {}]

\* Whether the loop of _write_qmake() over parts.values() takes a part:
\* not a core part, and not a part that is neither an extension module
\* nor a library.
IsUsedPart(part) ==
    /\ ~part.core
    /\ part.kind = "ExtensionModule"

\* One pass of the loop for an extension module that is taken: the source,
\* the table entry, CONFIG and QT are for a Python installed from source.
UsedValuesWith(used, part, install_from_source) ==
    [qmake_config |->
        IF install_from_source /\ part.qmake_config # NONE
        THEN used.qmake_config \cup Range(part.qmake_config[1])
        ELSE used.qmake_config,
     qmake_qt |->
        IF install_from_source /\ part.qmake_qt # NONE
        THEN used.qmake_qt \cup Range(part.qmake_qt[1])
        ELSE used.qmake_qt,
     used_defines |-> AddValues(used.used_defines, part.defines, FALSE),
     used_includepath |->
        AddValues(used.used_includepath, part.includepath, TRUE),
     used_inittab |->
        IF install_from_source
        THEN used.used_inittab \cup {part.unscoped_name}
        ELSE used.used_inittab,
     used_libs |-> AddValues(used.used_libs, part.libs, FALSE),
     used_sources |->
        IF install_from_source
        THEN AddValues(used.used_sources, part.source, TRUE)
        ELSE used.used_sources]

\* The loop of _write_qmake() over parts.values().
RECURSIVE UsedValues(_, _, _)
UsedValues(parts, install_from_source, used) ==
    IF parts = <<>> THEN used
    ELSE UsedValues(Tail(parts), install_from_source,
             IF IsUsedPart(parts[1])
             THEN UsedValuesWith(used, parts[1], install_from_source)
             ELSE used)

\* A line of the .pro file.
ProLine(qmake_var, values) == [qmake_var |-> qmake_var, values |-> values]

\* "f.write('VAR += %s\n' % ' '.join(values))" for a set that is not
\* empty, its elements in the order the set gives them.
JoinedLine(qmake_var, order) ==
    IF order = <<>> THEN <<>> ELSE <<ProLine(qmake_var, order)>>

\* _write_used_values(): the variable a value goes to and the value as it
\* is written.
SourceVariable(name, value) ==
    IF name = "SOURCES" /\ value = "/src/x.h" THEN "HEADERS" ELSE name

WrittenValue(name, value) ==
    IF name = "LIBS" /\ value = "\"-framework Cocoa\""
    THEN "-framework Cocoa" ELSE value

\* _write_used_values(): a line for each of sorted(used_values).
WriteUsedValues(used_values, name) ==
    [i \in 1..Cardinality(used_values) |->
        ProLine(SourceVariable(name, SortedValues(used_values)[i]),
                <<WrittenValue(name, SortedValues(used_values)[i])>>)]

\* _write_inittab(): the names of the table, in the order written.
WriteInittab(inittab) == SortedValues(inittab)

\* _write_qmake() and, called by it, _write_main().
WriteQmake ==
    /\ qmake_build # NONE
    /\ pro_file = NONE
    /\ LET used == UsedValues(qmake_build[1].parts,
                              qmake_build[1].install_from_source,
                              NoUsedValues)
       IN  /\ \E qt \in SetOrders(used.qmake_qt),
                config \in SetOrders(used.qmake_config) :
                pro_file' = Some(
                    JoinedLine("QT", qt)
                    \o JoinedLine("CONFIG", config)
                    \o WriteUsedValues(used.used_defines, "DEFINES")
                    \o WriteUsedValues(used.used_includepath, "INCLUDEPATH")
                    \o WriteUsedValues(used.used_sources, "SOURCES")
                    \o WriteUsedValues(used.used_libs, "LIBS"))
           /\ main_file' = Some(WriteInittab(used.used_inittab))
    /\ UNCHANGED qmake_build
    /\ UNCHANGED <<targetVars, variantVars, resolveVars, buildVars,
                   sessionVars, compareVars, installVars, resourceVars>>

(***************************************************************************)
(* sysroot/sysroot.py: install_components() reads the Manifest file of the *)
(* sysroot directory, empties the directory for a complete re-install and  *)
(* has each component ensure it is installed;                              *)
(* sysroot/abstract_component.py: ensure_installed() installs what the     *)
(* component names in preinstalls first.  The manifest is a dict of name   *)
(* to VersionNumber and the Manifest file a sequence of lines; the sysroot *)
(* directory is represented by the installs completed in its contents.     *)
(***************************************************************************)
IS_NOT_INSTALLED == "IS_NOT_INSTALLED"

IS_IN_PROGRESS == "IS_IN_PROGRESS"

IS_INSTALLED == "IS_INSTALLED"

\* A component as install_components() reads it.
InstallComponent(name, version, preinstalls) ==
    [name |-> name, version |-> version, preinstalls |-> preinstalls]

\* str(version) as a line of the Manifest file holds it: the numbers of
\* "major.minor.patch" and the suffix.
VersionStr(v) == <<v.major, v.minor, v.patch, v.suffix>>

\* VersionNumber.parse_version_number(version_str) for such a string.
ParseVersionNumber(version_str) ==
    VersionNumber(version_str[1], version_str[2], version_str[3],
                  version_str[4])

\* The loop of install_components() over the lines of the Manifest file.
RECURSIVE ParseManifest(_)
ParseManifest(lines) ==
    IF lines = <<>> THEN <<>>
    ELSE Store(ParseManifest(SubSeq(lines, 1, Len(lines) - 1)),
               lines[Len(lines)].name,
               ParseVersionNumber(lines[Len(lines)].version_str))

\* The manifest install_components() reads: empty without a file.
ReadManifest(file) == IF file = NONE THEN <<>> ELSE ParseManifest(file[1])

\* _write_manifest(): a line for each of sorted(manifest.keys()).
WriteManifest(d) ==
    [i \in 1..Len(d) |->
        [name |-> SortedValues(Keys(d))[i],
         version_str |-> VersionStr(Lookup(d, SortedValues(Keys(d))[i]))]]

\* _components_from_names(): the components named, NONE for the error of an
\* unknown name.
RECURSIVE ComponentsFromNames(_, _)
ComponentsFromNames(sr, component_names) ==
    IF component_names = <<>> THEN Some(<<>>)
    ELSE LET component == GetComponent(sr, component_names[1])
             others == ComponentsFromNames(sr, Tail(component_names))
         IN  IF component = NONE \/ others = NONE THEN NONE
             ELSE Some(<<component[1]>> \o others[1])

\* A variant of RecordsOtherVersion that never finds another version.
RecordsNoOtherVersion(read, components) == FALSE

\* "installed is not None and installed != component.version" for one of
\* the components to install.
RecordsOtherVersion(read, components) ==
    \E i \in 1..Len(components) :
        /\ HasKey(read, components[i].name)
        /\ ~VersionEq(Lookup(read, components[i].name),
                      VersionOther(components[i].version))

\* A variant of ManifestToKeep that goes on with the manifest read.
ManifestAsRead(read, other) == read

\* The manifest install_components() goes on with: "manifest = {}" for a
\* complete re-install.
ManifestToKeep(read, other) == IF other THEN <<>> ELSE read

\* install_components() up to the comparison of the manifest with the
\* components to install.
BeginInstall ==
    /\ install_pc = "begin"
    /\ LET sr == install_args[1].sysroot
           names == install_args[1].component_names
           components == IF names # <<>> THEN ComponentsFromNames(sr, names)
                         ELSE Some(sr.components)
           read == IF install_args[1].force THEN <<>>
                   ELSE ReadManifest(manifest_file)
       IN  IF components = NONE
           THEN /\ install_pc' = "aborted"
                /\ install_error' = Some("unkown component")
                /\ UNCHANGED <<install_run, manifest>>
           ELSE \E other \in {RecordsOtherVersion(read, components[1])} :
                /\ install_run' =
                    Some([components |-> components[1],
                          all_components |-> names = <<>>,
                          force |-> install_args[1].force \/ other])
                /\ manifest' = ManifestToKeep(read, other)
                /\ install_pc' = "create_dir"
                /\ UNCHANGED install_error
    /\ UNCHANGED <<install_args, manifest_file, sysroot_dir, install_status,
                   install_stack, install_ci, install_log>>
    /\ UNCHANGED <<targetVars, variantVars, resolveVars, buildVars,
                   sessionVars, compareVars, qmakeVars, resourceVars>>

\* "self.create_dir(self.sysroot_dir, empty=force)": the Manifest file is a
\* file of the directory.
CreateSysrootDir ==
    /\ install_pc = "create_dir"
    /\ IF install_run[1].force
       THEN /\ sysroot_dir' = {}
            /\ manifest_file' = NONE
            /\ install_log' = Append(install_log, [event |-> "emptied"])
       ELSE UNCHANGED <<sysroot_dir, manifest_file, install_log>>
    /\ install_pc' = "write_manifest"
    /\ UNCHANGED <<install_args, install_run, manifest, install_status,
                   install_stack, install_ci, install_error>>
    /\ UNCHANGED <<targetVars, variantVars, resolveVars, buildVars,
                   sessionVars, compareVars, qmakeVars, resourceVars>>

\* delete_dir() called by create_dir(): shutil.rmtree() raises after it
\* has removed some of the directory, the Manifest file among it or not.
DeleteDirRaises ==
    /\ install_pc = "create_dir"
    /\ install_run[1].force
    /\ sysroot_dir' \in SUBSET sysroot_dir
    /\ manifest_file' \in {manifest_file, NONE}
    /\ install_pc' = "aborted"
    /\ install_error' = Some("unable to remove directory")
    /\ UNCHANGED <<install_args, install_run, manifest, install_status,
                   install_stack, install_ci, install_log>>
    /\ UNCHANGED <<targetVars, variantVars, resolveVars, buildVars,
                   sessionVars, compareVars, qmakeVars, resourceVars>>

\* "self._write_manifest(manifest)" before the components are installed.
WriteFirstManifest ==
    /\ install_pc = "write_manifest"
    /\ manifest_file' = Some(WriteManifest(manifest))
    /\ install_pc' = "install"
    /\ UNCHANGED <<install_args, install_run, manifest, sysroot_dir,
                   install_status, install_stack, install_ci, install_log,
                   install_error>>
    /\ UNCHANGED <<targetVars, variantVars, resolveVars, buildVars,
                   sessionVars, compareVars, qmakeVars, resourceVars>>

\* A call of ensure_installed() is a frame of the component and where the
\* call is at.
EnsureFrame(name) == [self |-> name, at |-> "enter", i |-> 1]

InstallTop == install_stack[Len(install_stack)]

InstallPop == SubSeq(install_stack, 1, Len(install_stack) - 1)

SelfOf(f) == GetComponent(install_args[1].sysroot, f.self)[1]

\* "for component in components: component.ensure_installed(...)"
CallEnsureInstalled ==
    /\ install_pc = "install"
    /\ install_stack = <<>>
    /\ install_ci <= Len(install_run[1].components)
    /\ install_stack' =
        <<EnsureFrame(install_run[1].components[install_ci].name)>>
    /\ UNCHANGED <<install_args, install_run, manifest, manifest_file,
                   sysroot_dir, install_status, install_ci, install_pc,
                   install_log, install_error>>
    /\ UNCHANGED <<targetVars, variantVars, resolveVars, buildVars,
                   sessionVars, compareVars, qmakeVars, resourceVars>>

\* The return of a call of ensure_installed(): after the return of a call
\* of install_components() the Manifest file is written.
ReturnEnsured(new_manifest) ==
    /\ install_stack' = InstallPop
    /\ manifest' = new_manifest
    /\ IF Len(install_stack) = 1
       THEN /\ manifest_file' = Some(WriteManifest(new_manifest))
            /\ install_ci' = install_ci + 1
       ELSE UNCHANGED <<manifest_file, install_ci>>

\* A variant of InManifest that takes no component as installed.
NeverInManifest(name) == FALSE

\* Whether ensure_installed() takes a component as installed already.
InManifest(name) == HasKey(manifest, name)

\* A variant of IsInProgress that takes no call as being in progress.
NeverInProgress(status) == FALSE

\* "elif self._install_status == self._IS_IN_PROGRESS"
IsInProgress(status) == status = IS_IN_PROGRESS

\* ensure_installed() up to the loop over the preinstalls.
EnterEnsureInstalled ==
    /\ install_pc = "install"
    /\ install_stack # <<>>
    /\ InstallTop.at = "enter"
    /\ LET name == InstallTop.self
       IN  IF InManifest(name)
           THEN /\ install_status' =
                    [install_status EXCEPT ![name] = IS_INSTALLED]
                /\ ReturnEnsured(manifest)
                /\ UNCHANGED <<install_pc, install_error>>
           ELSE IF install_status[name] = IS_NOT_INSTALLED
           THEN /\ install_status' =
                    [install_status EXCEPT ![name] = IS_IN_PROGRESS]
                /\ install_stack' =
                    [install_stack EXCEPT ![Len(install_stack)].at =
                        "preinstalls"]
                /\ UNCHANGED <<manifest, manifest_file, install_ci,
                               install_pc, install_error>>
           ELSE IF IsInProgress(install_status[name])
           THEN /\ install_pc' = "aborted"
                /\ install_error' =
                    Some("the component is part of a circular dependency")
                /\ UNCHANGED <<install_status, install_stack, manifest,
                               manifest_file, install_ci>>
           ELSE /\ ReturnEnsured(manifest)
                /\ UNCHANGED <<install_status, install_pc, install_error>>
    /\ UNCHANGED <<install_args, install_run, sysroot_dir, install_log>>
    /\ UNCHANGED <<targetVars, variantVars, resolveVars, buildVars,
                   sessionVars, compareVars, qmakeVars, resourceVars>>

\* A variant of PreinstallsOf that leaves the preinstalls out.
NoPreinstallsOf(component, all_components) == <<>>

\* The preinstalls ensure_installed() goes through.
PreinstallsOf(component, all_components) ==
    IF all_components THEN component.preinstalls ELSE <<>>

\* One pass of "for preinstall in self.preinstalls".
EnsurePreinstall ==
    /\ install_pc = "install"
    /\ install_stack # <<>>
    /\ InstallTop.at = "preinstalls"
    /\ LET preinstalls == PreinstallsOf(SelfOf(InstallTop),
                                        install_run[1].all_components)
       IN  /\ InstallTop.i <= Len(preinstalls)
           /\ LET component == GetComponent(install_args[1].sysroot,
                                            preinstalls[InstallTop.i])
                  next == [InstallTop EXCEPT !.i = @ + 1]
              IN  install_stack' =
                    IF component = NONE THEN Append(InstallPop, next)
                    ELSE Append(InstallPop, next)
                            \o <<EnsureFrame(component[1].name)>>
    /\ UNCHANGED <<install_args, install_run, manifest, manifest_file,
                   sysroot_dir, install_status, install_ci, install_pc,
                   install_log, install_error>>
    /\ UNCHANGED <<targetVars, variantVars, resolveVars, buildVars,
                   sessionVars, compareVars, qmakeVars, resourceVars>>

\* "self.install()" is called.
InvokeInstall ==
    /\ install_pc = "install"
    /\ install_stack # <<>>
    /\ InstallTop.at = "preinstalls"
    /\ InstallTop.i > Len(PreinstallsOf(SelfOf(InstallTop),
                                        install_run[1].all_components))
    /\ install_stack' =
        [install_stack EXCEPT ![Len(install_stack)].at = "install"]
    /\ install_log' =
        Append(install_log, [event |-> "invoked", name |-> InstallTop.self])
    /\ UNCHANGED <<install_args, install_run, manifest, manifest_file,
                   sysroot_dir, install_status, install_ci, install_pc,
                   install_error>>
    /\ UNCHANGED <<targetVars, variantVars, resolveVars, buildVars,
                   sessionVars, compareVars, qmakeVars, resourceVars>>

\* install() returns: the component is in the sysroot directory at its
\* version, and ensure_installed() records it in the manifest.
InstallReturns ==
    /\ install_pc = "install"
    /\ install_stack # <<>>
    /\ InstallTop.at = "install"
    /\ LET component == SelfOf(InstallTop)
       IN  /\ sysroot_dir' =
                {c \in sysroot_dir : c.name # component.name}
                    \cup {[name |-> component.name,
                           version |-> component.version]}
           /\ install_status' =
                [install_status EXCEPT ![component.name] = IS_INSTALLED]
           /\ install_log' =
                Append(install_log,
                       [event |-> "returned", name |-> component.name])
           /\ ReturnEnsured(Store(manifest, component.name,
                                  component.version))
    /\ UNCHANGED <<install_args, install_run, install_pc, install_error>>
    /\ UNCHANGED <<targetVars, variantVars, resolveVars, buildVars,
                   sessionVars, compareVars, qmakeVars, resourceVars>>

\* install() raises: what it had installed of the component is not known to
\* be complete.
InstallRaises ==
    /\ install_pc = "install"
    /\ install_stack # <<>>
    /\ InstallTop.at = "install"
    /\ sysroot_dir' = {c \in sysroot_dir : c.name # InstallTop.self}
    /\ install_log' =
        Append(install_log, [event |-> "raised", name |-> InstallTop.self])
    /\ install_pc' = "aborted"
    /\ install_error' = Some("install() raised")
    /\ UNCHANGED <<install_args, install_run, manifest, manifest_file,
                   install_status, install_stack, install_ci>>
    /\ UNCHANGED <<targetVars, variantVars, resolveVars, buildVars,
                   sessionVars, compareVars, qmakeVars, resourceVars>>

\* install_components() after the last component.
FinishInstall ==
    /\ install_pc = "install"
    /\ install_stack = <<>>
    /\ install_ci > Len(install_run[1].components)
    /\ install_pc' = "done"
    /\ UNCHANGED <<install_args, install_run, manifest, manifest_file,
                   sysroot_dir, install_status, install_stack, install_ci,
                   install_log, install_error>>
    /\ UNCHANGED <<targetVars, variantVars, resolveVars, buildVars,
                   sessionVars, compareVars, qmakeVars, resourceVars>>

(***************************************************************************)
(* builder/builder.py: _generate_resources() writes the entries of the     *)
(* resources to one .qrc file or splits them over the number of files      *)
(* asked for.  An entry is represented by a number; a file written is the  *)
(* record of the number in its name (NONE for 'pyqtdeploy.qrc') and the    *)
(* entries it lists.                                                       *)
(***************************************************************************)
\* _write_resource(resources_contents, nr)
WriteResource(contents, nr) ==
    [nr |-> IF nr < 0 THEN NONE ELSE Some(nr), contents |-> contents]

\* contents[start:end] for 0 <= start and 0 <= end <= len(contents)
Slice(contents, start, end) ==
    [i \in 1..(IF end > start THEN end - start ELSE 0) |->
        contents[start + i]]

\* "for r in range(nr_resources)" from r on.
RECURSIVE WriteResources(_, _, _, _, _)
WriteResources(contents, nr, per_resource, r, start) ==
    IF r >= nr THEN <<>>
    ELSE LET end == IF start + per_resource > Len(contents)
                    THEN Len(contents) ELSE start + per_resource
         IN  <<WriteResource(Slice(contents, start, end), r)>>
             \o WriteResources(contents, nr, per_resource, r + 1,
                               start + per_resource)

\* The files _generate_resources() writes for the contents; the division
\* by zero raises ZeroDivisionError.
GeneratedResources(contents, nr) ==
    IF nr = 1
    THEN [raised |-> FALSE, files |-> <<WriteResource(contents, -1)>>]
    ELSE LET nr_files == Len(contents)
             n == IF nr > nr_files THEN nr_files ELSE nr
         IN  IF n = 0 THEN [raised |-> TRUE, files |-> <<>>]
             ELSE [raised |-> FALSE,
                   files |-> WriteResources(contents, n,
                                            (nr_files + n - 1) \div n, 0, 0)]

\* _generate_resources() from "Write the .qrc files" on.
GenerateResources ==
    /\ resource_files = NONE
    /\ nr_resources >= 1
    /\ resource_files' =
        Some(GeneratedResources(resources_contents, nr_resources))
    /\ UNCHANGED <<resources_contents, nr_resources>>
    /\ UNCHANGED <<targetVars, variantVars, resolveVars, buildVars,
                   sessionVars, compareVars, qmakeVars, installVars>>

(***************************************************************************)
(* The specification of a sysroot to which a component is added.  The      *)
(* parts tables are computed for a sysroot with component A, which         *)
(* provides partX, partW and partV, and then for the same sysroot with one *)
(* more component before or after A: an OpenSSL component, or a component  *)
(* B that provides partY.                                                  *)
(***************************************************************************)
AddXDepChoices ==
    {<<"!", "partZ">>, <<"partV">>, <<"partW">>, <<"B", ":", "partY">>}

AddWDepChoices == {<<"partV">>, <<"partU">>, <<"B", ":", "?", "partY">>}

AddVDepChoices == {<<"partW">>, <<"partX">>}

\* Component A with three parts.
ComponentA3(xdeps, wdeps, vdeps) ==
    [name |-> <<"A">>, version |-> ComponentVersion,
     provides |-> <<Item(<<"partX">>, <<[Part EXCEPT !.deps = xdeps]>>),
                    Item(<<"partW">>, <<[Part EXCEPT !.deps = wdeps]>>),
                    Item(<<"partV">>, <<[Part EXCEPT !.deps = vdeps]>>)>>]

ComponentsA3 ==
    {ComponentA3(xd, wd, vd) :
        xd \in {l \in DepLists(AddXDepChoices, MaxDeps) : NoRepeat(l)},
        wd \in {l \in DepLists(AddWDepChoices, MaxDeps) : NoRepeat(l)},
        vd \in {l \in DepLists(AddVDepChoices, MaxDeps) : NoRepeat(l)}}

\* The components that are added.
AddedComponents ==
    {ComponentOpenSSL} \cup
    {[name |-> <<"B">>, version |-> ComponentVersion,
      provides |-> <<Item(<<"partY">>, <<[Part EXCEPT !.deps = yd]>>)>>] :
        yd \in {<<>>, << <<"A", ":", "partX">> >>}}

InitAdd ==
    /\ TargetIdle
    /\ VariantIdle
    /\ \E a \in ComponentsA3 :
        /\ sysroot = Some([target |-> <<"linux", "-", "64">>,
                           components |-> <<a>>])
        /\ memo = [c \in {a.name} |-> NONE]
    /\ stack = <<>>
    /\ ci = 0
    /\ raised = FALSE
    /\ earlier_parts = NONE
    /\ BuildIdle
    /\ SessionIdle
    /\ LaterIdle

\* A new Sysroot for the same target with one more component: its
\* components are new objects, whose parts have not been computed.
AddComponent ==
    /\ Done
    /\ earlier_parts = NONE
    /\ \E c \in AddedComponents, first \in BOOLEAN :
        /\ sysroot' = Some([sysroot[1] EXCEPT !.components =
                               IF first THEN <<c>> \o @ ELSE Append(@, c)])
        /\ memo' = [n \in ComponentNames(sysroot[1]) \cup {c.name} |-> NONE]
    /\ earlier_parts' = Some(memo)
    /\ ci' = 0
    /\ UNCHANGED <<stack, raised>>
    /\ UNCHANGED <<targetVars, variantVars, buildVars, sessionVars, laterVars>>

NextAdd ==
    \/ GetParts
    \/ PartsAddPart
    \/ PartsReturn
    \/ AddPartDependency
    \/ AddPartResume
    \/ AddPartReturn
    \/ AddComponent

SpecAdd == InitAdd /\ [][NextAdd]_vars

(***************************************************************************)
(* The specification of resolving parts whose dependencies go round.       *)
(* Each of partX, partW and partV of component A has one dependency: on    *)
(* itself, on another part of A, or on partY of component B, which depends *)
(* on a part of A.  This gives self-loops, cycles of two and three parts   *)
(* of one component, and cycles through two components.                    *)
(***************************************************************************)
CycleXDepChoices == {<<"partX">>, <<"partW">>, <<"B", ":", "partY">>}

CycleWDepChoices == {<<"partW">>, <<"partV">>, <<"partX">>}

CycleVDepChoices == {<<"partV">>, <<"partX">>}

CycleComponentLists ==
    LET as == {ComponentA3(<<xd>>, <<wd>>, <<vd>>) :
                  xd \in CycleXDepChoices, wd \in CycleWDepChoices,
                  vd \in CycleVDepChoices}
        bs == {ComponentB(<<yd>>) :
                  yd \in {<<"A", ":", "partX">>, <<"A", ":", "partV">>}}
    IN  {<<a>> : a \in as} \cup {<<a, b>> : a \in as, b \in bs}
            \cup {<<b, a>> : a \in as, b \in bs}

InitCycles ==
    /\ TargetIdle
    /\ VariantIdle
    /\ \E cs \in CycleComponentLists :
        /\ sysroot = Some([target |-> <<"linux", "-", "64">>,
                           components |-> cs])
        /\ memo = [c \in {cs[i].name : i \in 1..Len(cs)} |-> NONE]
    /\ stack = <<>>
    /\ ci = 0
    /\ raised = FALSE
    /\ earlier_parts = NONE
    /\ BuildIdle
    /\ SessionIdle
    /\ LaterIdle

SpecCycles == InitCycles /\ [][Next]_vars

\* A call that has been made goes on until it returns: the steps are those
\* of one thread of control, which nothing else can hold up.
LiveSpecCycles == SpecCycles /\ WF_vars(Next)

(***************************************************************************)
(* The specification of build().  The sysroot has a Python component and   *)
(* a Lib component with finished parts tables.  Python provides sys (core  *)
(* or not, a Python module, package or extension module), X (may have Big  *)
(* as a hidden dependency), Big (which may depend on D or on pkg.mod and   *)
(* have E as a hidden dependency), D, E and, maybe, the package pkg; Lib   *)
(* provides pkg.mod, which may depend on E and have X as a hidden          *)
(* dependency.  Each of sys, D and pkg may need an Android API             *)
(* level above the target's.  The project asks for any of these and for a  *)
(* part nobody provides.                                                   *)
(***************************************************************************)
\* The most parts a project asks for.
MaxRoots == 2

PythonPart(unscoped_name) == <<"Python", ":">> \o unscoped_name

\* An entry of a finished parts table.
TableItem(name, part) == Item(name, Some([part EXCEPT !.name = Some(name)]))

PythonTable(kind, core, sysapi, xhidden, bigdeps, bighidden, dapi, pkg) ==
    << TableItem(PythonPart(<<"sys">>),
                 [Part EXCEPT !.kind = kind, !.core = core,
                              !.min_android_api = sysapi]),
       TableItem(PythonPart(<<"X">>), [Part EXCEPT !.hidden_deps = xhidden]),
       TableItem(PythonPart(<<"Big">>),
                 [Part EXCEPT !.deps = bigdeps, !.hidden_deps = bighidden]),
       TableItem(PythonPart(<<"D">>), [Part EXCEPT !.min_android_api = dapi]),
       TableItem(PythonPart(<<"E">>), Part) >>
    \o (IF pkg = NONE THEN <<>>
        ELSE <<TableItem(PythonPart(<<"pkg">>),
                         [Part EXCEPT !.kind = "PythonPackage",
                                      !.min_android_api = pkg[1]])>>)

PythonTables ==
    {PythonTable(kind, core, sysapi, xhidden, bigdeps, bighidden, dapi, pkg) :
        kind \in {"PythonModule", "PythonPackage", "ExtensionModule"},
        core \in BOOLEAN,
        sysapi \in {NONE, Some(29)},
        xhidden \in {<<>>, <<PythonPart(<<"Big">>)>>},
        bigdeps \in {<<>>, <<PythonPart(<<"D">>)>>,
                     << <<"Lib", ":", "pkg", ".", "mod">> >>},
        bighidden \in {<<>>, <<PythonPart(<<"E">>)>>},
        dapi \in {NONE, Some(29)},
        pkg \in {NONE, Some(NONE), Some(Some(29))}}

LibTables ==
    {<<TableItem(<<"Lib", ":", "pkg", ".", "mod">>,
                 [Part EXCEPT !.deps = d, !.hidden_deps = h])>> :
        d \in {<<>>, <<PythonPart(<<"E">>)>>},
        h \in {<<>>, <<PythonPart(<<"X">>)>>}}

\* The targets: Android with its API level, and Linux, whose platform has
\* no android_api (0 stands for the attribute that is never read).
BuildTargets ==
    {[platform |-> <<"android">>, android_api |-> 28],
     [platform |-> <<"linux">>, android_api |-> 0]}

BuildSysroots ==
    {[target |-> t,
      components |-> <<[name |-> <<"Python">>, parts |-> pt],
                       [name |-> <<"Lib">>, parts |-> lt]>>] :
        t \in BuildTargets, pt \in PythonTables, lt \in LibTables}

RootChoices ==
    {PythonPart(<<"X">>), PythonPart(<<"Big">>), PythonPart(<<"D">>),
     PythonPart(<<"missing">>), <<"Lib", ":", "pkg", ".", "mod">>}

InitBuild ==
    /\ TargetIdle
    /\ VariantIdle
    /\ ResolveIdle
    /\ SessionIdle
    /\ LaterIdle
    /\ build_sysroot \in {Some(sr) : sr \in BuildSysroots}
    /\ project_parts \in {l \in DepLists(RootChoices, MaxRoots) : NoRepeat(l)}
    /\ available_parts = <<>>
    /\ required_parts = <<>>
    /\ build_pc = "available"

NextBuild ==
    \/ BuildAvailableParts
    \/ BuildCoreParts
    \/ BuildProjectParts

SpecBuild == InitBuild /\ [][NextBuild]_vars

(***************************************************************************)
(* The specification of the sessions of one SysrootSpecification.  The     *)
(* file specifies a Python component and a Qt component; Qt may have a     *)
(* list of disabled targets, a list of enabled targets and a configuration *)
(* for win.  Sysroots are created for any targets in any order, as the     *)
(* packages page does for every architecture.                              *)
(***************************************************************************)
\* The most sysroots created from one specification.
MaxSessions == 3

SessionTargets ==
    {<<"android", "-", "32">>, <<"linux", "-", "64">>, <<"win", "-", "64">>}

DisabledChoices ==
    {<<>>,
     <<Item(<<"disabled_targets">>, SpecValue(<< <<"win">> >>))>>,
     <<Item(<<"disabled_targets">>,
            SpecValue(<< <<"android">>, <<"linux">> >>))>>}

EnabledChoices ==
    {<<>>,
     <<Item(<<"enabled_targets">>, SpecValue(<< <<"win">> >>))>>,
     <<Item(<<"enabled_targets">>,
            SpecValue(<< <<"linux">>, <<"win">> >>))>>}

TargetConfigChoices ==
    {<<>>,
     <<Item(<<"win">>,
            SpecDict(<<Item(<<"version">>, SpecValue(<< <<"5">> >>))>>))>>}

SpecificationFiles ==
    {<<Item(<<"Python">>, <<Item(<<"version">>, SpecValue(<< <<"3">> >>))>>),
       Item(<<"Qt">>,
            d \o e \o <<Item(<<"version">>, SpecValue(<< <<"6">> >>))>> \o t)>> :
        d \in DisabledChoices, e \in EnabledChoices,
        t \in TargetConfigChoices}

InitSessions ==
    /\ TargetIdle
    /\ VariantIdle
    /\ ResolveIdle
    /\ BuildIdle
    /\ LaterIdle
    /\ specification_file \in SpecificationFiles
    /\ self_spec = specification_file
    /\ sessions = <<>>

\* A Sysroot is created for a target from the specification object.
CreateSysroot ==
    /\ specification_file # <<>>
    /\ Len(sessions) < MaxSessions
    /\ \E target \in SessionTargets :
           NewSysroot(target, CreateComponentsForTarget(self_spec, target))
    /\ UNCHANGED specification_file
    /\ UNCHANGED <<targetVars, variantVars, resolveVars, buildVars, laterVars>>

NextSessions == CreateSysroot

SpecSessions == InitSessions /\ [][NextSessions]_vars

(***************************************************************************)
(* The specification of the comparisons of a VersionNumber: any version    *)
(* number whose elements are at most MaxElement on the left, and an int, a *)
(* tuple of 1 to 4 elements or a VersionNumber on the right.               *)
(***************************************************************************)
\* The largest major, minor or patch number and the largest rank of a
\* suffix.
MaxElement == 2

Elements == 0..MaxElement

VersionNumbers ==
    {VersionNumber(major, minor, patch, suffix) :
        major \in Elements, minor \in Elements, patch \in Elements,
        suffix \in Elements}

\* The tuples of 1 to 4 elements.
ComparisonTuples ==
    UNION {[1..n -> Elements] : n \in 1..4}

RightHandSides ==
    {IntOther(n) : n \in Elements}
        \cup {TupleOther(t) : t \in ComparisonTuples}
        \cup {VersionOther(v) : v \in VersionNumbers}

InitCompare ==
    /\ TargetIdle
    /\ VariantIdle
    /\ ResolveIdle
    /\ BuildIdle
    /\ SessionIdle
    /\ QmakeIdle
    /\ InstallIdle
    /\ ResourcesIdle
    /\ version_self \in {Some(v) : v \in VersionNumbers}
    /\ version_other \in {Some(o) : o \in RightHandSides}
    /\ compared = NONE

\* self == other, self > other, self < other, self >= other, self <= other
CompareVersions ==
    /\ version_self # NONE
    /\ compared = NONE
    /\ compared' = Some(Comparison(version_self[1], version_other[1]))
    /\ UNCHANGED <<version_self, version_other>>
    /\ UNCHANGED <<targetVars, variantVars, resolveVars, buildVars,
                   sessionVars, qmakeVars, installVars, resourceVars>>

NextCompare == CompareVersions

SpecCompare == InitCompare /\ [][NextCompare]_vars

(***************************************************************************)
(* The specification of _write_qmake(): up to MaxParts required parts,     *)
(* each an extension module with or without values for QT, CONFIG, DEFINES *)
(* and LIBS, or a core part, or a Python module.                           *)
(***************************************************************************)
\* The most required parts.
MaxParts == 2

QmakeNames == <<"zmod", "amod", "core">>

QmakeParts(unscoped_name) ==
    {[ExtensionModule(unscoped_name, qmake_qt, qmake_config, defines, libs)
        EXCEPT !.core = skip = "core",
               !.kind = IF skip = "module" THEN "PythonModule" ELSE @] :
        qmake_qt \in {NONE, Some(<<"core">>), Some(<<"gui", "core">>)},
        qmake_config \in {NONE, Some(<<"thread">>),
                          Some(<<"thread", "exceptions">>)},
        defines \in {NONE, Some(<<"B_DEF", "A_DEF">>)},
        libs \in {NONE, Some(<<"-lz", "-Llib">>),
                  Some(<<"\"-framework Cocoa\"">>)},
        skip \in {"no", "core", "module"}}

RECURSIVE QmakePartLists(_)
QmakePartLists(n) ==
    IF n = 0 THEN {<<>>}
    ELSE QmakePartLists(n - 1)
         \cup {Append(l, part) :
                l \in {x \in QmakePartLists(n - 1) : Len(x) = n - 1},
                part \in QmakeParts(QmakeNames[((n - 1) % 3) + 1])}

InitQmake ==
    /\ TargetIdle
    /\ VariantIdle
    /\ ResolveIdle
    /\ BuildIdle
    /\ SessionIdle
    /\ CompareIdle
    /\ InstallIdle
    /\ ResourcesIdle
    /\ qmake_build \in
        {Some([parts |-> l, install_from_source |-> ifs]) :
            l \in QmakePartLists(MaxParts), ifs \in BOOLEAN}
    /\ pro_file = NONE
    /\ main_file = NONE

NextQmake == WriteQmake

SpecQmake == InitQmake /\ [][NextQmake]_vars

(***************************************************************************)
(* The specification of install_components(): a sysroot of two or three    *)
(* components in some order, each at version 1.0.0 and with some           *)
(* preinstalls, a Manifest file left by an earlier run that records some   *)
(* of A, B and C at that or another version, the names given (none for all *)
(* components) and force.                                                  *)
(***************************************************************************)
InstallNames == {"A", "B", "C"}

ConfiguredVersion == VersionNumber(1, 0, 0, 0)

RecordedVersions == {ConfiguredVersion, VersionNumber(1, 0, 0, 1)}

PreinstallChoices(name) ==
    CASE name = "A" -> {<<>>, <<"B">>, <<"B", "C">>, <<"Z", "C">>}
      [] name = "B" -> {<<>>, <<"A">>, <<"C">>}
      [] name = "C" -> {<<>>, <<"A">>, <<"C">>}

ComponentOrders == {<<"A", "B", "C">>, <<"C", "B", "A">>, <<"B", "A">>}

InstallSysroots ==
    {[components |->
        [i \in 1..Len(order) |->
            InstallComponent(order[i], ConfiguredVersion, pre[order[i]])]] :
        order \in ComponentOrders,
        pre \in [A : PreinstallChoices("A"), B : PreinstallChoices("B"),
                 C : PreinstallChoices("C")]}

\* The Manifest files: none, or one that records some of the names.
RecordedChoices == {NONE} \cup {Some(v) : v \in RecordedVersions}

ManifestOf(a, b, c) ==
    (IF a = NONE THEN <<>> ELSE <<Item("A", a[1])>>)
    \o (IF b = NONE THEN <<>> ELSE <<Item("B", b[1])>>)
    \o (IF c = NONE THEN <<>> ELSE <<Item("C", c[1])>>)

ManifestFiles ==
    {NONE} \cup {Some(WriteManifest(ManifestOf(a, b, c))) :
                    a \in RecordedChoices, b \in RecordedChoices,
                    c \in RecordedChoices}

\* What an earlier run that wrote the file had installed.
InstalledBy(file) ==
    IF file = NONE THEN {}
    ELSE {[name |-> file[1][i].name,
           version |-> ParseVersionNumber(file[1][i].version_str)] :
            i \in 1..Len(file[1])}

ComponentNameChoices == {<<>>, <<"A">>, <<"B", "A">>, <<"C">>}

InstallStarts(sysroots, files, names) ==
    /\ TargetIdle
    /\ VariantIdle
    /\ ResolveIdle
    /\ BuildIdle
    /\ SessionIdle
    /\ CompareIdle
    /\ QmakeIdle
    /\ ResourcesIdle
    /\ install_args \in
        {Some([sysroot |-> sr, component_names |-> n, force |-> f]) :
            sr \in sysroots, n \in names, f \in BOOLEAN}
    /\ manifest_file \in files
    /\ sysroot_dir = InstalledBy(manifest_file)
    /\ install_run = NONE
    /\ manifest = <<>>
    /\ install_status = [n \in InstallNames |-> IS_NOT_INSTALLED]
    /\ install_stack = <<>>
    /\ install_ci = 1
    /\ install_pc = "begin"
    /\ install_log = <<>>
    /\ install_error = NONE

InitInstall ==
    InstallStarts(InstallSysroots, ManifestFiles, ComponentNameChoices)

NextInstall ==
    \/ BeginInstall
    \/ CreateSysrootDir
    \/ DeleteDirRaises
    \/ WriteFirstManifest
    \/ CallEnsureInstalled
    \/ EnterEnsureInstalled
    \/ EnsurePreinstall
    \/ InvokeInstall
    \/ InstallReturns
    \/ InstallRaises
    \/ FinishInstall

SpecInstall == InitInstall /\ [][NextInstall]_vars

\* The runs over the sysroots of A, B and C with no Manifest file or one
\* that records C: a step is taken as long as one can be, as a call that
\* has not returned or raised goes on.
InitInstallAll ==
    InstallStarts({sr \in InstallSysroots : Len(sr.components) = 3},
                  {NONE, Some(WriteManifest(
                                ManifestOf(NONE, NONE,
                                           Some(ConfiguredVersion))))},
                  {<<>>})

SpecInstallAll == InitInstallAll /\ [][NextInstall]_vars

LiveSpecInstallAll == SpecInstallAll /\ WF_vars(NextInstall)

(***************************************************************************)
(* The specification of _generate_resources(): up to MaxContents entries   *)
(* in any order and 1 to MaxResources files asked for (pyqtdeploy-build    *)
(* takes no number below 1).                                               *)
(***************************************************************************)
\* The most entries.
MaxContents == 4

\* The most files asked for.
MaxResources == 5

ResourcesContents ==
    UNION {{c \in [1..n -> 1..MaxContents] :
                \A i, j \in 1..n : c[i] = c[j] => i = j} :
           n \in 0..MaxContents}

InitResources ==
    /\ TargetIdle
    /\ VariantIdle
    /\ ResolveIdle
    /\ BuildIdle
    /\ SessionIdle
    /\ CompareIdle
    /\ QmakeIdle
    /\ InstallIdle
    /\ resources_contents \in ResourcesContents
    /\ nr_resources \in 1..MaxResources
    /\ resource_files = NONE

NextResources == GenerateResources

SpecResources == InitResources /\ [][NextResources]_vars

(***************************************************************************)
(* Properties of the parts tables, checked under Spec.                     *)
(***************************************************************************)
\* The component with a name, of the sysroot.
ComponentNamed(name) == GetComponent(sysroot[1], name)[1]

\* The table the parts property of a component has returned.
FinalParts(name) == memo[name][1]

\* The normalised parts a component provides for the version and target,
\* with the dependencies as declared.
Provided(name) ==
    ProvidedParts(ComponentNamed(name).provides, ComponentNamed(name),
                  sysroot[1].target).value

\* A normalised dependency: its component, its marker and its scoped name
\* without the marker.
Marker(dep) ==
    IF StartsWith(GetNameParts(dep)[2], "?") THEN "?"
    ELSE IF StartsWith(GetNameParts(dep)[2], "!") THEN "!"
    ELSE ""

DepComponent(dep) == GetNameParts(dep)[1]

DepName(dep) ==
    IF Marker(dep) = "" THEN dep
    ELSE GetName(DepComponent(dep), Rest(GetNameParts(dep)[2]))

OpenSSLConfigured == <<"OpenSSL">> \in ComponentNames(sysroot[1])

\* A dependency that has to be available: unmarked, or marked "!" in a
\* sysroot without OpenSSL.
IsRequired(dep) ==
    \/ Marker(dep) = ""
    \/ Marker(dep) = "!" /\ ~OpenSSLConfigured

\* A scoped name is in the final table of its component.
IsAvailable(name) ==
    /\ DepComponent(name) \in ComponentNames(sysroot[1])
    /\ HasKey(FinalParts(DepComponent(name)), name)

\* C1: every part in the final table of a component has all its required
\* dependencies on parts of that component in the table too, cycles
\* included.
C1_RequiredSameComponentDepsPresent ==
    Done =>
        \A c \in ComponentNames(sysroot[1]) :
            \A it \in Range(Provided(c)) :
                HasKey(FinalParts(c), it.k) =>
                    \A i \in 1..Len(it.v.deps) :
                        (/\ DepComponent(it.v.deps[i]) = c
                         /\ IsRequired(it.v.deps[i]))
                            => HasKey(FinalParts(c), DepName(it.v.deps[i]))

\* C2: a part with a required dependency on a part of another component is
\* in the final table only if that component is configured and the part is
\* in the final table of that component.
C2_RequiredOtherComponentDepsPresent ==
    Done =>
        \A c \in ComponentNames(sysroot[1]) :
            \A it \in Range(Provided(c)) :
                HasKey(FinalParts(c), it.k) =>
                    \A i \in 1..Len(it.v.deps) :
                        (/\ DepComponent(it.v.deps[i]) # c
                         /\ IsRequired(it.v.deps[i]))
                            => IsAvailable(DepName(it.v.deps[i]))

\* The sysroot of the end-to-end scenario: component A provides partX
\* with the given dependencies, component B provides partY (which depends
\* on nothing) for linux only and provides no partZ.
IsScenario(xdeps) ==
    /\ <<"B">> \in ComponentNames(sysroot[1])
    /\ Lookup(ComponentNamed(<<"A">>).provides, <<"partX">>)[1].deps = xdeps
    /\ Lookup(ComponentNamed(<<"B">>).provides, <<"partY">>)[1].deps = Empty

\* What the scenario promises of partX: not available for a win target;
\* for a linux target available with exactly B:partY as its dependencies.
ScenarioOutcome ==
    /\ PlatformOf(sysroot[1].target) = <<"win">>
        => ~HasKey(FinalParts(<<"A">>), <<"A", ":", "partX">>)
    /\ PlatformOf(sysroot[1].target) = <<"linux">>
        => /\ HasKey(FinalParts(<<"A">>), <<"A", ":", "partX">>)
           /\ Lookup(FinalParts(<<"A">>), <<"A", ":", "partX">>)[1].deps
                  = << <<"B", ":", "partY">> >>

MarkedDeps(part, marker) ==
    {i \in 1..Len(part.deps) :
        /\ Marker(part.deps[i]) = marker
        /\ \A j \in 1..Len(part.deps) :
               DepName(part.deps[j]) = DepName(part.deps[i]) => j = i}

\* Every dependency of a provided part, but one, that has to be available
\* is available.
OthersAvailable(part, i) ==
    \A j \in 1..Len(part.deps) :
        (j # i /\ IsRequired(part.deps[j]))
            => IsAvailable(DepName(part.deps[j]))

\* C5: for a dependency "?Y" of a part X, X stays available when Y is
\* unavailable and then omits Y from its dependencies; when Y is available
\* X lists it.
C5_OptionalDependency ==
    Done =>
        \A c \in ComponentNames(sysroot[1]) :
            \A it \in Range(Provided(c)) :
                \A i \in MarkedDeps(it.v, "?") :
                    /\ OthersAvailable(it.v, i) => HasKey(FinalParts(c), it.k)
                    /\ HasKey(FinalParts(c), it.k) =>
                           (InList(DepName(it.v.deps[i]),
                                   Lookup(FinalParts(c), it.k)[1].deps)
                                <=> IsAvailable(DepName(it.v.deps[i])))

\* C6: for a dependency "!Z" of a part X, with an OpenSSL component
\* configured Z is left out of X's dependencies and does not count for X's
\* availability; without one Z is an ordinary required dependency, so X is
\* available only with Z available and then lists it.
C6_UnlessOpenSSLDependency ==
    Done =>
        \A c \in ComponentNames(sysroot[1]) :
            \A it \in Range(Provided(c)) :
                \A i \in MarkedDeps(it.v, "!") :
                    IF OpenSSLConfigured
                    THEN /\ OthersAvailable(it.v, i)
                                => HasKey(FinalParts(c), it.k)
                         /\ HasKey(FinalParts(c), it.k) =>
                                ~InList(DepName(it.v.deps[i]),
                                        Lookup(FinalParts(c), it.k)[1].deps)
                    ELSE HasKey(FinalParts(c), it.k) =>
                             /\ IsAvailable(DepName(it.v.deps[i]))
                             /\ InList(DepName(it.v.deps[i]),
                                       Lookup(FinalParts(c), it.k)[1].deps)

\* C12: computing the parts tables leaves every version specific part of
\* every provides dict as it was: its name, deps, hidden_deps, defines,
\* libs, includepath and source (and every other attribute) do not change
\* in any step.
C12_TemplatesUnchanged ==
    [][\A i \in 1..Len(sysroot[1].components) :
           sysroot'[1].components[i].provides
               = sysroot[1].components[i].provides]_vars

\* A table has been returned with a part whose name has been set and whose
\* dependencies have been pruned, while the part of provides has no name.
C12_Witness ==
    /\ Done
    /\ \E c \in ComponentNames(sysroot[1]) :
           \E it \in Range(ComponentNamed(c).provides) :
               /\ HasKey(FinalParts(c), GetName(c, it.k))
               /\ it.v[1].name = NONE
               /\ Lookup(FinalParts(c), GetName(c, it.k))[1].name
                      = Some(GetName(c, it.k))
               /\ Len(Lookup(FinalParts(c), GetName(c, it.k))[1].deps)
                      < Len(it.v[1].deps)

\* C14: with one more component in the sysroot, every name that was in
\* the parts table of a component is still in the table of that component.
C14_AddingAComponentKeepsParts ==
    (Done /\ earlier_parts # NONE) =>
        \A c \in DOMAIN earlier_parts[1] :
            \A i \in 1..Len(earlier_parts[1][c][1]) :
                HasKey(FinalParts(c), earlier_parts[1][c][1][i].k)

\* The parts of component A that depend on each other without a marker.
MutualCycle(x, w) ==
    /\ <<"A">> \in ComponentNames(sysroot[1])
    /\ HasKey(Provided(<<"A">>), x)
    /\ HasKey(Provided(<<"A">>), w)
    /\ InList(w, Lookup(Provided(<<"A">>), x).deps)
    /\ InList(x, Lookup(Provided(<<"A">>), w).deps)

\* Every dependency of a part other than one name is in the final table of
\* its component.
OtherDepsAvailable(p, other) ==
    \A d \in Range(Lookup(Provided(<<"A">>), p).deps) :
        d # other => IsAvailable(DepName(d))

C15_PartsTerminates ==
    /\ [][(/\ Len(stack') > Len(stack)
           /\ stack'[Len(stack')].fn = "_add_part")
              => /\ ~HasKey(memo[stack'[Len(stack')].self][1],
                            stack'[Len(stack')].name)
                 /\ HasKey(memo'[stack'[Len(stack')].self][1],
                           stack'[Len(stack')].name)]_vars
    /\ (stack # <<>>) ~> (stack = <<>>)

\* The tables have been returned for a component whose three parts form a
\* cycle.
C15_Witness ==
    /\ Done
    /\ LET deps(p) == Lookup(ComponentNamed(<<"A">>).provides, p)[1].deps
       IN  /\ InList(<<"partW">>, deps(<<"partX">>))
           /\ InList(<<"partV">>, deps(<<"partW">>))
           /\ InList(<<"partX">>, deps(<<"partV">>))
    /\ HasKey(FinalParts(<<"A">>), <<"A", ":", "partV">>)

\* C22: the parts tables are only returned when every dependency of every
\* provided part names a component of the sysroot: a dependency on a
\* component that is not configured makes the resolution abort.
C22_UnknownProviderAborts ==
    Done =>
        \A c \in ComponentNames(sysroot[1]) :
            \A it \in Range(Provided(c)) :
                \A d \in Range(it.v.deps) :
                    DepComponent(d) \in ComponentNames(sysroot[1])

(***************************************************************************)
(* Properties of the sysroots of one specification, checked under          *)
(* SpecSessions.                                                           *)
(***************************************************************************)
\* C13: whatever sysroots were created from the specification object
\* before, the components (and with them the parts tables) of a sysroot
\* for a target are those of a freshly loaded specification for that
\* target alone; disabled_targets and enabled_targets still apply.
C13_SessionsAreIndependent ==
    \A i \in 1..Len(sessions) :
        sessions[i].components =
            CreateComponentsForTarget(specification_file,
                                      sessions[i].target).components

(***************************************************************************)
(* Properties of the parts build() requires, checked under SpecBuild.      *)
(***************************************************************************)
\* The part the sysroot provides under a name, for a name it provides.
AvailablePart(name) == Get(available_parts, name)[1]

\* _add_project_part() adds a name it is called with: the sysroot provides
\* it, for the Android API level of the target, and its parent if it has
\* one.
IsAdded(name) ==
    /\ Get(available_parts, name) # NONE
    /\ ~BelowAndroidAPI(AvailablePart(name), build_sysroot[1].target)
    /\ Contains(name, ".") =>
           ParentName(UnscopedParentName(name),
                      build_sysroot[1].components) # NONE

\* The names the build starts from: the core parts of Python and the parts
\* of the project.
BuildRoots ==
    {it.k : it \in {x \in Range(PythonComponent(build_sysroot[1]).parts) :
                        IsCorePart(x.v[1])}}
        \cup Range(project_parts)

\* The names reached from a set of names by dependencies that are not
\* hidden and by parents.
RECURSIVE Reached(_)
Reached(names) ==
    LET more ==
            names
            \cup UNION {Range(AvailablePart(n).deps) :
                           n \in {m \in names : IsAdded(m)}}
            \cup {ParentName(UnscopedParentName(n),
                             build_sysroot[1].components)[1] :
                     n \in {m \in names : Contains(m, ".") /\ IsAdded(m)}}
    IN  IF more = names THEN names ELSE Reached(more)

\* The names added without a hidden dependency on the way.
AddedOpenly == {n \in Reached(BuildRoots) : IsAdded(n)}

\* C3: when a part X with a hidden dependency Big is added, Big is added,
\* and a dependency or hidden dependency of Big is among the required
\* parts only when it is added without a hidden dependency on the way or
\* is itself a hidden dependency of a part added that way.
C3_HiddenDepsAreNotExpanded ==
    build_pc = "done" =>
        \A x \in AddedOpenly :
            \A i \in 1..Len(AvailablePart(x).hidden_deps) :
                LET big == AvailablePart(x).hidden_deps[i]
                IN  IsAdded(big) =>
                        /\ HasKey(required_parts, big)
                        /\ \A d \in Range(AvailablePart(big).deps)
                                    \cup Range(AvailablePart(big).hidden_deps) :
                               HasKey(required_parts, d) =>
                                   \/ d \in AddedOpenly
                                   \/ \E y \in AddedOpenly :
                                          InList(d, AvailablePart(y).hidden_deps)

\* The names of the required parts once build() has collected them.
BuildSet == Keys(required_parts)

\* C17: whenever a dotted part name is among the required parts, the name
\* of its parent in some component of the sysroot is among them as well.
C17_DottedPartHasParent ==
    build_pc = "done" =>
        \A n \in BuildSet :
            Contains(n, ".") =>
                \E i \in 1..Len(build_sysroot[1].components) :
                    LET c == build_sysroot[1].components[i]
                        parent == GetName(c.name, UnscopedParentName(n))
                    IN  /\ HasKey(c.parts, parent)
                        /\ parent \in BuildSet

\* C18: the required parts are closed under dependencies: every name in
\* the deps of a required part is a required part, for every target.
C18_ClosedUnderDependencies ==
    build_pc = "done" =>
        \A n \in BuildSet :
            \A d \in Range(Lookup(required_parts, n)[1].deps) :
                d \in BuildSet

\* A dotted name whose parent is in the parts table of no component.
Orphan(n) ==
    /\ Contains(n, ".")
    /\ \A i \in 1..Len(build_sysroot[1].components) :
        ~HasKey(build_sysroot[1].components[i].parts,
                GetName(build_sysroot[1].components[i].name,
                        UnscopedParentName(n)))

\* The names reached from a set of names by the dependencies, the hidden
\* dependencies and the parents of the names that are provided, those of
\* the dotted names without a parent left out.
RECURSIVE ReachedButForOrphans(_)
ReachedButForOrphans(names) ==
    LET through == {m \in names :
                        Get(available_parts, m) # NONE /\ ~Orphan(m)}
        more ==
            names
            \cup UNION {Range(AvailablePart(n).deps) : n \in through}
            \cup UNION {Range(AvailablePart(n).hidden_deps) : n \in through}
            \cup {ParentName(UnscopedParentName(n),
                             build_sysroot[1].components)[1] :
                     n \in {m \in through : Contains(m, ".")}}
    IN  IF more = names THEN names ELSE ReachedButForOrphans(more)

\* C19: a dotted name whose parent is in the parts table of no component
\* is not among the required parts, and every required part is reached
\* without going through such a name: nothing is added on its account.
C19_OrphanIsSkipped ==
    build_pc = "done" =>
        /\ \A n \in BuildSet : ~Orphan(n)
        /\ BuildSet \subseteq ReachedButForOrphans(BuildRoots)

\* The project asks for pkg.mod, which has a dependency and a hidden
\* dependency and whose parent nobody provides; neither is required.
C19_Witness ==
    /\ build_pc = "done"
    /\ InList(<<"Lib", ":", "pkg", ".", "mod">>, project_parts)
    /\ Orphan(<<"Lib", ":", "pkg", ".", "mod">>)
    /\ AvailablePart(<<"Lib", ":", "pkg", ".", "mod">>).deps
           = <<PythonPart(<<"E">>)>>
    /\ AvailablePart(<<"Lib", ":", "pkg", ".", "mod">>).hidden_deps
           = <<PythonPart(<<"X">>)>>
    /\ PythonPart(<<"E">>) \notin BuildSet
    /\ PythonPart(<<"X">>) \notin BuildSet
    /\ BuildSet # {}

\* The parts table of the Python component.
PythonParts == Range(PythonComponent(build_sysroot[1]).parts)

C21_UnresolvedRootAborts ==
    build_pc = "done" =>
        \A r \in Range(project_parts) : Get(available_parts, r) # NONE

(***************************************************************************)
(* Properties of is_targeted(), checked under SpecTarget.                  *)
(***************************************************************************)
\* The names of a predicate: those of its "|" separated list, a leading "!"
\* taken off.
PredicateNames(t) ==
    LET l == Split(IF StartsWith(t, "!") THEN Rest(t) ELSE t, "|")
    IN  {l[i] : i \in 1..Len(l)}

IsList(t) == Len(Split(t, "|")) > 1

\* C9: for a "|" separated predicate of known names, the architecture is
\* covered iff its platform name or its own name is one of the listed names.
C9_ListCoversPlatformOrArchitecture ==
    (/\ covered # "idle"
     /\ IsList(targets)
     /\ PredicateNames(targets) \subseteq (PlatformNames \cup ArchNames))
        => (covered = "True" <=>
                \/ PlatformOf(arch) \in PredicateNames(targets)
                \/ arch \in PredicateNames(targets))

\* C10: a predicate holding a name that is neither a platform nor an
\* architecture raises UserException, in every form of the predicate.
C10_UnknownNameIsFatal ==
    (/\ covered # "idle"
     /\ targets # Empty
     /\ \E n \in PredicateNames(targets) : n \notin PlatformNames \cup ArchNames)
        => covered = UserException

\* C11: over all architectures, the empty predicate covers every one; "!P"
\* for a platform P covers exactly the architectures of the other
\* platforms; a platform name covers exactly the architectures of that
\* platform; an architecture name covers exactly that architecture; and
\* "linux|macos" covers the linux and macos architectures and no win
\* architecture.
C11_TargetPredicateTable ==
    covered # "idle" =>
        /\ targets = Empty => covered = "True"
        /\ \A P \in PlatformNames :
               /\ targets = <<"!">> \o P
                      => covered = Bool(PlatformOf(arch) # P)
               /\ targets = P => covered = Bool(PlatformOf(arch) = P)
        /\ \A A \in ArchNames : targets = A => covered = Bool(arch = A)
        /\ targets = <<"linux", "|", "macos">>
               => /\ covered
                         = Bool(PlatformOf(arch) \in {<<"linux">>, <<"macos">>})
                  /\ PlatformOf(arch) = <<"win">> => covered = "False"

C11_Witness ==
    /\ targets = <<"win", "-", "64">>
    /\ arch = <<"win", "-", "32">>
    /\ covered = "False"

(***************************************************************************)
(* Properties of _normalised_part(), checked under SpecVariant.            *)
(***************************************************************************)
\* The first n elements of a version number.
VersionPrefix(v, n) == SubSeq(<<v.major, v.minor, v.patch, v.suffix>>, 1, n)

\* a is before b in the lexicographic order, a and b of the same length.
LexLess(a, b) ==
    \E i \in 1..Len(a) : a[i] < b[i] /\ \A j \in 1..(i - 1) : a[j] = b[j]

\* The version range of a part accepts version v, at the precision of each
\* bound.
RangeAccepts(part, v) ==
    LET at(b) == VersionPrefix(v, Len(b.value))
    IN  IF part.version # NONE
        THEN at(part.version[1]) = part.version[1].value
        ELSE /\ part.min_version # NONE =>
                    ~LexLess(at(part.min_version[1]), part.min_version[1].value)
             /\ part.max_version # NONE =>
                    ~LexLess(part.max_version[1].value, at(part.max_version[1]))

Accepting == {i \in 1..Len(part_versions) :
                RangeAccepts(part_versions[i], self_version[1])}

FirstAccepting == CHOOSE i \in Accepting : \A j \in Accepting : i <= j

IsMax5ThenMin6 ==
    /\ Len(part_versions) = 2
    /\ part_versions[1].max_version = Some(IntOther(5))
    /\ part_versions[1].min_version = NONE
    /\ part_versions[1].version = NONE
    /\ part_versions[2].min_version = Some(IntOther(6))
    /\ part_versions[2].max_version = NONE
    /\ part_versions[2].version = NONE
    /\ part_versions[1].target = Empty
    /\ part_versions[2].target = Empty

SourceOf(i) == Some(<< <<VariantTags[i]>> >>)

\* C7: the part selected is the first, in declared order, whose version
\* range accepts the version of the component; with [max_version=5 -> A,
\* min_version=6 -> B] every 5.x selects A and every 6.x selects B; when no
\* range accepts the version the part is unavailable.
C7_FirstAcceptingVariantIsSelected ==
    selected # NONE =>
        /\ ~selected[1].raised
        /\ Accepting = {} => selected[1].value = NONE
        /\ selected[1].value # NONE =>
                /\ Accepting # {}
                /\ selected[1].value[1].source = SourceOf(FirstAccepting)
        /\ (IsMax5ThenMin6 /\ self_version[1].major = 5) =>
                /\ selected[1].value # NONE
                /\ selected[1].value[1].source = SourceOf(1)
        /\ (IsMax5ThenMin6 /\ self_version[1].major = 6) =>
                /\ selected[1].value # NONE
                /\ selected[1].value[1].source = SourceOf(2)

\* C7's case: two ranges accept the version and the first part is selected.
C7_Witness ==
    /\ selected # NONE
    /\ Cardinality(Accepting) >= 2
    /\ selected[1].value # NONE
    /\ selected[1].value[1].source = SourceOf(1)
    /\ self_version[1].minor = 1

\* C8: when the first part whose range accepts the version is not for the
\* target, the part is unavailable: no later part is tried.
C8_NoFallThroughOnTarget ==
    (/\ selected # NONE
     /\ Accepting # {}
     /\ IsTargeted(arch, part_versions[FirstAccepting].target) = "False")
        => /\ ~selected[1].raised
           /\ selected[1].value = NONE

\* C8's case: a later part accepts the version and is for the target.
C8_Witness ==
    /\ selected # NONE
    /\ selected[1].value = NONE
    /\ Accepting # {}
    /\ IsTargeted(arch, part_versions[FirstAccepting].target) = "False"
    /\ \E i \in Accepting :
            /\ i > FirstAccepting
            /\ IsTargeted(arch, part_versions[i].target) = "True"


(***************************************************************************)
(* Properties of the comparisons of a VersionNumber, checked under         *)
(* SpecCompare.                                                            *)
(***************************************************************************)
\* The elements of a version number, in the order of the 4-tuple.
ElementsOf(v) == <<v.major, v.minor, v.patch, v.suffix>>

\* The tuple an int or a tuple on the right hand side stands for.
TupleOf(other) == other.value

\* v is smaller than the tuple t at the first of the elements of t where
\* they differ.
SmallerAtFirstDifference(v, t) ==
    \E i \in 1..Len(t) :
        /\ ElementsOf(v)[i] < t[i]
        /\ \A j \in 1..(i - 1) : ElementsOf(v)[j] = t[j]

LargerAtFirstDifference(v, t) ==
    \E i \in 1..Len(t) :
        /\ ElementsOf(v)[i] > t[i]
        /\ \A j \in 1..(i - 1) : ElementsOf(v)[j] = t[j]

\* C23: for a tuple of n elements on the right, == holds iff the first n
\* elements of the version number are those of the tuple, < (>) iff the
\* version number is smaller (larger) at the first of the n elements
\* where they differ; the elements after the n-th change the outcome of
\* no operator, and an int is the tuple of that one element.
C23_PartialPrecision ==
    (compared # NONE /\ version_other[1].type \in {"int", "tuple"}) =>
        LET v == version_self[1]
            t == TupleOf(version_other[1])
        IN  /\ compared[1].eq
                = (\A i \in 1..Len(t) : ElementsOf(v)[i] = t[i])
            /\ compared[1].lt = SmallerAtFirstDifference(v, t)
            /\ compared[1].gt = LargerAtFirstDifference(v, t)
            /\ \A w \in VersionNumbers :
                (\A i \in 1..Len(t) : ElementsOf(w)[i] = ElementsOf(v)[i])
                    => Comparison(w, version_other[1]) = compared[1]
            /\ compared[1] = Comparison(v, TupleOther(t))

\* 1.2.1 has been compared with the tuple (1, 2) and with the int 1.
C23_Witness ==
    /\ compared # NONE
    /\ version_self = Some(VersionNumber(1, 2, 1, 0))
    /\ version_other[1] \in {TupleOther(<<1, 2>>), IntOther(1)}
    /\ compared[1].eq
    /\ ~compared[1].gt

\* C29: for every right hand side exactly one of <, == and > holds, >= is
\* (> or ==) and <= is (< or ==).
C29_Trichotomy ==
    compared # NONE =>
        LET c == compared[1]
        IN  /\ Cardinality({x \in {"lt", "eq", "gt"} : c[x]}) = 1
            /\ c.ge = (c.gt \/ c.eq)
            /\ c.le = (c.lt \/ c.eq)

\* A version number has been compared with one that is larger in its
\* suffix only.
C29_Witness ==
    /\ compared # NONE
    /\ version_other[1].type = "VersionNumber"
    /\ version_self[1].suffix < version_other[1].value[4]
    /\ compared[1].lt
    /\ compared[1].le
    /\ ~compared[1].ge


(***************************************************************************)
(* Properties of the files _write_qmake() writes, checked under SpecQmake. *)
(***************************************************************************)
\* The values written for a qmake variable, in the order written.
RECURSIVE WrittenFor(_, _)
WrittenFor(qmake_var, lines) ==
    IF lines = <<>> THEN <<>>
    ELSE (IF lines[1].qmake_var = qmake_var THEN lines[1].values ELSE <<>>)
         \o WrittenFor(qmake_var, Tail(lines))

\* A sequence of strings is in ascending order without duplicates.
Ascending(values) ==
    \A i \in 1..(Len(values) - 1) : StrLess(values[i], values[i + 1])

\* C24: the values of every qmake variable written from the accumulated
\* values, and the names of the table of the extension modules, are in
\* ascending order without duplicates.
C24_WrittenInSortedOrder ==
    pro_file # NONE =>
        /\ \A qmake_var \in {"SOURCES", "HEADERS", "DEFINES", "INCLUDEPATH",
                            "LIBS", "QT", "CONFIG"} :
            Ascending(WrittenFor(qmake_var, pro_file[1]))
        /\ Ascending(main_file[1])


(***************************************************************************)
(* Properties of install_components(), checked under SpecInstall and, for  *)
(* the runs that install all components, under LiveSpecInstallAll.         *)
(***************************************************************************)
\* install() of a component was called, or has returned, among the first n
\* entries of the log.
InvokedWithin(name, n) ==
    \E j \in 1..n : install_log[j] = [event |-> "invoked", name |-> name]

ReturnedWithin(name, n) ==
    \E j \in 1..n : install_log[j] = [event |-> "returned", name |-> name]

Invoked(name) == InvokedWithin(name, Len(install_log))

Returned(name) == ReturnedWithin(name, Len(install_log))

Emptied == \E j \in 1..Len(install_log) : install_log[j].event = "emptied"

\* The run has read the Manifest file and installs all components.
InstallsAll == install_run # NONE /\ install_run[1].all_components

\* The manifest the run started from recorded the component: the manifest
\* holds it and not because its install() returned.
RecordedAtStart(name) == HasKey(manifest, name) /\ ~Returned(name)

Configured == ComponentNames(install_args[1].sysroot)

ConfiguredComponent(name) == GetComponent(install_args[1].sysroot, name)[1]

\* C25: when all components are installed, install() of a component is
\* called only after install() has returned for each of its preinstalls
\* that is configured and was not recorded in the manifest.
C25_PreinstallsFirst ==
    InstallsAll =>
        \A i \in 1..Len(install_log) :
            install_log[i].event = "invoked" =>
                \A p \in Range(ConfiguredComponent(
                                    install_log[i].name).preinstalls) :
                    (p \in Configured /\ ~RecordedAtStart(p))
                        => ReturnedWithin(p, i - 1)

\* A run that installed all of C, B and A, in the order of the
\* specification, by installing B and then C before A.
C25_Witness ==
    /\ InstallsAll
    /\ install_pc = "done"
    /\ install_run[1].components[1].name = "A"
    /\ ConfiguredComponent("A").preinstalls = <<"B", "C">>
    /\ Len(install_log) >= 6
    /\ install_log[1] = [event |-> "invoked", name |-> "B"]
    /\ install_log[3] = [event |-> "invoked", name |-> "C"]
    /\ install_log[5] = [event |-> "invoked", name |-> "A"]

\* The configured components the manifest did not record, and the ones a
\* component reaches through the preinstalls among them.
Unrecorded == {n \in Configured : ~RecordedAtStart(n)}

PreinstalledBy(n) ==
    {p \in Unrecorded : p \in Range(ConfiguredComponent(n).preinstalls)}

RECURSIVE ReachedFrom(_, _)
ReachedFrom(names, k) ==
    IF k = 0 THEN names
    ELSE ReachedFrom(names \cup UNION {PreinstalledBy(n) : n \in names},
                     k - 1)

OnCycle(n) ==
    /\ n \in Unrecorded
    /\ n \in ReachedFrom(PreinstalledBy(n), Cardinality(InstallNames))

InstallFinished == install_pc \in {"done", "aborted"}

CircularDependency == "the component is part of a circular dependency"

\* C26: when all components are installed and the preinstalls among the
\* configured components the manifest does not record have a cycle,
\* install() is called for no component on a cycle and the run does not
\* complete: it is aborted, with the error of a circular dependency unless
\* the removal of the directory or an install() raised first; and every
\* run ends.
C26_CycleAborts ==
    /\ [](InstallsAll =>
            /\ \A n \in Configured : OnCycle(n) => ~Invoked(n)
            /\ (\E n \in Configured : OnCycle(n)) =>
                /\ install_pc # "done"
                /\ (/\ install_pc = "aborted"
                    /\ install_error # Some("unable to remove directory")
                    /\ install_error # Some("install() raised"))
                        => install_error = Some(CircularDependency))
    /\ <>InstallFinished

\* A run aborted for the cycle of A and B after C was installed.
C26_Witness ==
    /\ InstallsAll
    /\ OnCycle("A")
    /\ OnCycle("B")
    /\ Returned("C")
    /\ install_pc = "aborted"
    /\ install_error = Some(CircularDependency)

\* The Manifest file records another version than the configured one for
\* one of the components.
FileRecordsOtherVersion(file, components) ==
    /\ file # NONE
    /\ \E i \in 1..Len(file[1]), j \in 1..Len(components) :
        /\ file[1][i].name = components[j].name
        /\ file[1][i].version_str # VersionStr(components[j].version)

\* C27: without force, the run becomes a complete re-install exactly when
\* the Manifest file records another version for a component to install.
\* Then the sysroot directory is emptied, the manifest holds only what the
\* run installed and a run that completes has called install() for every
\* component to install.  Otherwise the directory is not emptied and
\* install() is called for no component the manifest recorded.
C27_ReinstallOnOtherVersion ==
    /\ [][(/\ install_pc = "begin"
           /\ install_pc' = "create_dir"
           /\ ~install_args[1].force)
            => /\ install_run'[1].force
                    = FileRecordsOtherVersion(manifest_file,
                                              install_run'[1].components)
               /\ install_run'[1].force => manifest' = <<>>]_vars
    /\ []((install_run # NONE /\ ~install_args[1].force) =>
            IF install_run[1].force
            THEN /\ install_pc \in {"write_manifest", "install", "done"}
                    => Emptied
                 /\ \A n \in Keys(manifest) : Returned(n)
                 /\ install_pc = "done" =>
                        \A n \in Range(install_run[1].components) :
                            Invoked(n.name)
            ELSE /\ ~Emptied
                 /\ \A n \in Configured : RecordedAtStart(n) => ~Invoked(n))

\* A run that emptied the directory for the version recorded for A and
\* installed all three components.
C27_Witness ==
    /\ install_pc = "done"
    /\ ~install_args[1].force
    /\ install_run[1].force
    /\ Emptied
    /\ Invoked("A") /\ Invoked("B") /\ Invoked("C")

\* A run that left the directory and installed only what was not recorded.
C27_WitnessRecorded ==
    /\ install_pc = "done"
    /\ ~install_run[1].force
    /\ RecordedAtStart("B")
    /\ Invoked("A")
    /\ ~Invoked("B")

\* C28: at every point of a run, each line of the Manifest file names a
\* component whose install() has completed in what the sysroot directory
\* holds, at the version of the line.
C28_ManifestIsInstalled ==
    manifest_file # NONE =>
        \A i \in 1..Len(manifest_file[1]) :
            [name |-> manifest_file[1][i].name,
             version |-> ParseVersionNumber(manifest_file[1][i].version_str)]
                \in sysroot_dir


(***************************************************************************)
(* Properties of the resource files, checked under SpecResources.          *)
(***************************************************************************)
\* The entries the files list, in the order of the files.
RECURSIVE ListedEntries(_)
ListedEntries(files) ==
    IF files = <<>> THEN <<>>
    ELSE files[1].contents \o ListedEntries(Tail(files))

Min(a, b) == IF a < b THEN a ELSE b

\* C30: when the number of files asked for is not 1, the generation does
\* not raise and writes min(k, n) files for n entries, which list every
\* entry once and in order, and none of which lists no entry.
C30_ResourceFilesComplete ==
    (resource_files # NONE /\ nr_resources # 1) =>
        /\ ~resource_files[1].raised
        /\ Len(resource_files[1].files)
                = Min(nr_resources, Len(resources_contents))
        /\ ListedEntries(resource_files[1].files) = resources_contents
        /\ \A i \in 1..Len(resource_files[1].files) :
                resource_files[1].files[i].contents # <<>>

====
